---- MODULE Spec2Model ----
(***************************************************************************)
(* The LLM request-gating subsystem of the backend: src/src/llm.js (token  *)
(* estimator, rate windows, cooldown, admission gates, dispatcher, result  *)
(* classifier) and the serialization latch of the server                   *)
(* (src/unnamed/part_001, withLLMGate).                                    *)
(*                                                                         *)
(* Time is the value of Date.now() in milliseconds.  Every function-level  *)
(* step of an operation is one action.  The process is single-threaded:    *)
(* an operation that has started to run keeps running until it suspends on *)
(* a timer or on the provider, and no other operation and no clock tick    *)
(* comes in between (MayRun).  A sleeping operation resumes when the clock  *)
(* has reached its timer's deadline (a timer never fires early, it may     *)
(* fire late).                                                             *)
(***************************************************************************)
EXTENDS Integers, Sequences, FiniteSets, TLC

(* ----------------------------- bounds ---------------------------------- *)
NOps      == 2        \* concurrent route handlers
MaxRequests == 4      \* requests issued by all handlers together
MaxSoloRequests == 2  \* requests issued by the handler that runs alone
T0        == 100000   \* Date.now() when the process starts
TickMs    == 30000    \* granularity at which the clock is observed
MaxTicks  == 2        \* horizon: the clock stops at T0 + MaxTicks*TickMs

Ops     == 1..NOps
MaxTime == T0 + MaxTicks * TickMs

(* ------------------------ program constants ---------------------------- *)
OPENAI_RPM_LIMIT == 3
OPENAI_TPM_LIMIT == 12000
WINDOW           == 60000
MIN_GAP_MS       == 800
RETRIES          == 2      \* withRetry(run, { retries: 2, baseDelay: 800 })
BASE_DELAY       == 800
VISION_TOK       == 1000   \* visionTok
DEFAULT_RETRY_AFTER == 30  \* ?? 30
WAIT_CEILING_MS  == 8000   \* waitFree: Date.now() - start < 8000
WAIT_POLL_MS     == 120    \* waitFree: setTimeout(r, 120)

(* --------------------------- JS values --------------------------------- *)
\* null / undefined is the empty tuple, a present value v is <<v>>
Null    == <<>>
Some(v) == <<v>>
IsNull(x) == x = <<>>
Val(x)  == x[1]

\* a JS number that may be NaN
Num(n) == [nan |-> FALSE, v |-> n]
NaN    == [nan |-> TRUE,  v |-> 0]
\* a * 1000, now + b, Math.max(0, a - now): NaN propagates
NumTimes(a, k) == IF a.nan THEN NaN ELSE Num(a.v * k)
NumPlus(n, a)  == IF a.nan THEN NaN ELSE Num(n + a.v)
\* a > 0 is false for NaN
NumPositive(a) == ~a.nan /\ a.v > 0

Max(a, b) == IF a >= b THEN a ELSE b
Min(a, b) == IF a <= b THEN a ELSE b
Pow2(k)   == IF k = 0 THEN 1 ELSE IF k = 1 THEN 2 ELSE IF k = 2 THEN 4 ELSE 8

(* --------------------------- strings ----------------------------------- *)
Ch(s, i) == IF i >= 1 /\ i <= Len(s) THEN SubSeq(s, i, i) ELSE ""

Digits == {"0", "1", "2", "3", "4", "5", "6", "7", "8", "9"}
DigitVal(c) ==
  CASE c = "0" -> 0 [] c = "1" -> 1 [] c = "2" -> 2 [] c = "3" -> 3 [] c = "4" -> 4
    [] c = "5" -> 5 [] c = "6" -> 6 [] c = "7" -> 7 [] c = "8" -> 8 [] OTHER -> 9

IsSpace(c) == c \in {" ", "\n", "\t"}

UpperCase == "ABCDEFGHIJKLMNOPQRSTUVWXYZ"
LowerCase == "abcdefghijklmnopqrstuvwxyz"
LowerCh(c) ==
  IF \E k \in 1..26 : Ch(UpperCase, k) = c
    THEN Ch(LowerCase, CHOOSE k \in 1..26 : Ch(UpperCase, k) = c)
    ELSE c

RECURSIVE ToLowerCase(_)
ToLowerCase(s) == IF Len(s) = 0 THEN "" ELSE LowerCh(Ch(s, 1)) \o ToLowerCase(Tail(s))

\* s.includes(p)
Includes(s, p) ==
  \E k \in 1..(Len(s) - Len(p) + 1) : SubSeq(s, k, k + Len(p) - 1) = p

\* the digits of s from position i on, as far as they go
RECURSIVE DigitRun(_, _)
DigitRun(s, i) == IF Ch(s, i) \in Digits THEN Ch(s, i) \o DigitRun(s, i + 1) ELSE ""

RECURSIVE DecimalValue(_, _)
DecimalValue(s, acc) ==
  IF Len(s) = 0 THEN acc ELSE DecimalValue(Tail(s), acc * 10 + DigitVal(Ch(s, 1)))

\* Number(s) for a non-empty string: a run of digits is its value, anything
\* else (an HTTP date, a word) is NaN
ToNumber(s) ==
  IF Len(s) > 0 /\ DigitRun(s, 1) = s THEN Num(DecimalValue(s, 0)) ELSE NaN

RECURSIVE TrimLeft(_)
TrimLeft(s) == IF Len(s) > 0 /\ IsSpace(Ch(s, 1)) THEN TrimLeft(Tail(s)) ELSE s
RECURSIVE TrimRight(_)
TrimRight(s) ==
  IF Len(s) > 0 /\ IsSpace(Ch(s, Len(s))) THEN TrimRight(SubSeq(s, 1, Len(s) - 1)) ELSE s
Trim(s) == TrimRight(TrimLeft(s))

(* ------------------------- JSON.parse ---------------------------------- *)
\* Parsed values.  The grammar covers objects, arrays, strings without escapes
\* and unsigned integers, with white space between tokens.
JNumber(n)  == [t |-> "number", n |-> n]
JString(x)  == [t |-> "string", s |-> x]
JArray(xs)  == [t |-> "array",  items |-> xs]
JObject(ms) == [t |-> "object", members |-> ms]
Member(k, v) == [k |-> k, v |-> v]

ParseFail == [ok |-> FALSE, next |-> 0, val |-> Null]
ParseOk(v, next) == [ok |-> TRUE, next |-> next, val |-> Some(v)]

RECURSIVE SkipWs(_, _)
SkipWs(s, i) == IF IsSpace(Ch(s, i)) THEN SkipWs(s, i + 1) ELSE i

\* position of the quote that closes a string whose body starts at i, 0 if none
RECURSIVE ClosingQuote(_, _)
ClosingQuote(s, i) ==
  IF i > Len(s) THEN 0 ELSE IF Ch(s, i) = "\"" THEN i ELSE ClosingQuote(s, i + 1)

ParseString(s, i) ==
  IF Ch(s, i) # "\"" THEN ParseFail
  ELSE LET q == ClosingQuote(s, i + 1)
       IN  IF q = 0 THEN ParseFail ELSE ParseOk(JString(SubSeq(s, i + 1, q - 1)), q + 1)

RECURSIVE ParseValue(_, _)
RECURSIVE ParseElements(_, _, _)
RECURSIVE ParseMembers(_, _, _)

ParseValue(s, i0) ==
  LET i == SkipWs(s, i0)
      c == Ch(s, i)
  IN  CASE c = "{"  -> LET j == SkipWs(s, i + 1)
                       IN  IF Ch(s, j) = "}" THEN ParseOk(JObject(<<>>), j + 1)
                           ELSE ParseMembers(s, j, <<>>)
        [] c = "["  -> LET j == SkipWs(s, i + 1)
                       IN  IF Ch(s, j) = "]" THEN ParseOk(JArray(<<>>), j + 1)
                           ELSE ParseElements(s, j, <<>>)
        [] c = "\"" -> ParseString(s, i)
        [] c \in Digits -> LET run == DigitRun(s, i)
                           IN  ParseOk(JNumber(DecimalValue(run, 0)), i + Len(run))
        [] OTHER -> ParseFail

ParseElements(s, i, acc) ==
  LET v == ParseValue(s, i)
  IN  IF ~v.ok THEN ParseFail
      ELSE LET j   == SkipWs(s, v.next)
               got == Append(acc, Val(v.val))
           IN  CASE Ch(s, j) = "," -> ParseElements(s, j + 1, got)
                 [] Ch(s, j) = "]" -> ParseOk(JArray(got), j + 1)
                 [] OTHER -> ParseFail

ParseMembers(s, i, acc) ==
  LET k == ParseString(s, SkipWs(s, i))
  IN  IF ~k.ok THEN ParseFail
      ELSE LET c == SkipWs(s, k.next)
           IN  IF Ch(s, c) # ":" THEN ParseFail
               ELSE LET v == ParseValue(s, c + 1)
                    IN  IF ~v.ok THEN ParseFail
                        ELSE LET j   == SkipWs(s, v.next)
                                 got == Append(acc, Member(Val(k.val).s, Val(v.val)))
                             IN  CASE Ch(s, j) = "," -> ParseMembers(s, j + 1, got)
                                   [] Ch(s, j) = "}" -> ParseOk(JObject(got), j + 1)
                                   [] OTHER -> ParseFail

\* JSON.parse(text): the parsed value, or Null where JSON.parse throws
JSONParse(text) ==
  LET v == ParseValue(text, 1)
  IN  IF v.ok /\ SkipWs(text, v.next) = Len(text) + 1 THEN v.val ELSE Null

\* String(text).match(/\{[\s\S]*\}$/): the match m[0], or Null
FirstBrace(text) ==
  IF \E k \in 1..Len(text) : Ch(text, k) = "{"
    THEN CHOOSE k \in 1..Len(text) :
           Ch(text, k) = "{" /\ \A j \in 1..(k - 1) : Ch(text, j) # "{"
    ELSE 0

TrailingBraceMatch(text) ==
  LET b == FirstBrace(text)
  IN  IF b > 0 /\ b < Len(text) /\ Ch(text, Len(text)) = "}"
        THEN Some(SubSeq(text, b, Len(text)))
        ELSE Null

\* askLLMJson, lines 276-280: strict parse, then the salvage, then null
ParseJsonReply(text) ==
  LET strict == JSONParse(text)
      m      == TrailingBraceMatch(text)
  IN  IF ~IsNull(strict) THEN strict
      ELSE IF ~IsNull(m) THEN JSONParse(Val(m))
      ELSE Null

(* ------------------- values returned to the caller --------------------- *)
JNull   == [t |-> "null"]
JNaN    == [t |-> "NaN"]
JNum(a) == IF a.nan THEN JNaN ELSE JNumber(a.v)
OrNull(x) == IF IsNull(x) THEN JNull ELSE Val(x)

HasField(obj, name) ==
  obj.t = "object" /\ \E k \in 1..Len(obj.members) : obj.members[k].k = name
Field(obj, name) ==
  obj.members[CHOOSE k \in 1..Len(obj.members) : obj.members[k].k = name].v

\* { _error: 'insufficient_quota', status: 429 }
QuotaSignal ==
  JObject(<<Member("_error", JString("insufficient_quota")), Member("status", JNumber(429))>>)
\* { _error: 'rate_limit', status: 429, retryAfterSec }
RateLimitSignal(retryAfterSec) ==
  JObject(<<Member("_error", JString("rate_limit")), Member("status", JNumber(429)),
            Member("retryAfterSec", JNum(retryAfterSec))>>)

(* -------------------------- token estimator ---------------------------- *)
CeilDiv(a, b) == (a + b - 1) \div b

\* estimateTokensFromText, on the length of the text (0 for an absent one)
estimateTokensFromText(len) == IF len = 0 THEN 0 ELSE CeilDiv(len, 4)

\* a negative max_tokens is added as it is
buildTokenCost_NoClamp(systemLen, userLen, max_tokens) ==
  estimateTokensFromText(systemLen) + estimateTokensFromText(userLen) + max_tokens

buildTokenCost(systemLen, userLen, max_tokens) ==
  estimateTokensFromText(systemLen) + estimateTokensFromText(userLen) + Max(0, max_tokens)

(* --------------------------- provider errors --------------------------- *)
\* What the dispatcher reads of a thrown error: e.status || e.response.status
\* (0 when there is none), e.response.data.error.code || e.code, the error
\* type, the message, and the retry-after header of e.response.headers and of
\* e.headers (Null when absent).
Err(status, code, type, message, respHdr, hdr) ==
  [status |-> status, code |-> code, type |-> type, message |-> message,
   respRetryAfter |-> respHdr, retryAfter |-> hdr]

NoErr == Err(0, "", "", "", Null, Null)

QuotaPhrases == {"insufficient quota", "exceeded your current quota", "billing"}

\* the classification looks at the code alone
classify429_CodeOnly(e) ==
  IF e.code = "insufficient_quota" THEN "insufficient_quota" ELSE "rate_limit"

\* lines 92-101
classify429(e) ==
  LET msg == ToLowerCase(e.message)
  IN  IF e.code = "insufficient_quota" \/ e.type = "insufficient_quota"
        THEN "insufficient_quota"
      ELSE IF \E ph \in QuotaPhrases : Includes(msg, ph) THEN "insufficient_quota"
      ELSE "rate_limit"

\* msg.match(/try again in\s+(\d+)s/i): a match at position k of the message
TryAgain == "try again in"
RECURSIVE SpaceRun(_, _)
SpaceRun(s, i) == IF IsSpace(Ch(s, i)) THEN 1 + SpaceRun(s, i + 1) ELSE 0

TryAgainAt(msg, k) ==
  LET low == ToLowerCase(msg)
      sp  == k + Len(TryAgain)
      d   == sp + SpaceRun(low, sp)
      run == DigitRun(low, d)
  IN  /\ SubSeq(low, k, sp - 1) = TryAgain
      /\ SpaceRun(low, sp) >= 1
      /\ Len(run) >= 1
      /\ Ch(low, d + Len(run)) = "s"

TryAgainSeconds(msg) ==
  LET ks == {k \in 1..Len(msg) : k + Len(TryAgain) - 1 <= Len(msg) /\ TryAgainAt(msg, k)}
  IN  IF ks = {} THEN Null
      ELSE LET k == CHOOSE x \in ks : \A y \in ks : x <= y
               d == k + Len(TryAgain) + SpaceRun(ToLowerCase(msg), k + Len(TryAgain))
           IN  Some(ToNumber(DigitRun(msg, d)))

\* a header value is truthy when present and not the empty string
Truthy(h) == ~IsNull(h) /\ Len(Val(h)) > 0

parseRetryAfter(e) ==
  IF Truthy(e.respRetryAfter) THEN Some(ToNumber(Val(e.respRetryAfter)))
  ELSE TryAgainSeconds(e.message)

\* a ?? b
Coalesce(a, b) == IF IsNull(a) THEN b ELSE a

\* askLLM, lines 232-234
RetryAfterChat(e) ==
  LET hdr == Coalesce(e.respRetryAfter, e.retryAfter)
      own == IF Truthy(hdr) THEN Some(ToNumber(Val(hdr))) ELSE Null
  IN  Val(Coalesce(Coalesce(own, parseRetryAfter(e)), Some(Num(DEFAULT_RETRY_AFTER))))

\* askLLMJson line 288, askLLMVision line 346
RetryAfterOther(e) ==
  Val(Coalesce(parseRetryAfter(e), Some(Num(DEFAULT_RETRY_AFTER))))

RetryAfterSec(kind, e) == IF kind = "chat" THEN RetryAfterChat(e) ELSE RetryAfterOther(e)

\* 429 is treated as one more retriable status
Retriable_With429(e) ==
  e.status \in {408, 409, 429, 500, 502, 503, 504} \/ e.code = "ETIMEDOUT" \/ e.code = "ECONNRESET"
\* withRetry, lines 45-48
RetriableStatus == {408, 409, 500, 502, 503, 504}
Retriable(e) ==
  e.status \in RetriableStatus \/ e.code = "ETIMEDOUT" \/ e.code = "ECONNRESET"

\* the loop stops one attempt early
GiveUp_OneShort(e, i, retries) == ~Retriable(e) \/ i + 1 >= retries
\* withRetry line 51: give up on a failure of attempt i
GiveUp(e, i, retries) == ~Retriable(e) \/ i = retries

(* ------------------------------ requests ------------------------------- *)
\* default parameters of askLLM / askLLMJson / askLLMVision
MAX_TOKENS_CHAT   == 480
MAX_TOKENS_JSON   == 900
MAX_TOKENS_VISION == 480

\* A reply of the provider: a response with its message content (Null when
\* the response carries none), or a thrown error.
Reply(content)  == [ok |-> TRUE,  content |-> content, err |-> NoErr]
Throws(e)       == [ok |-> FALSE, content |-> Null,    err |-> e]

\* A request of a route handler and the behaviour of the provider during it:
\*   kind        "chat" (askLLM), "json" (askLLMJson), "vision" (askLLMVision),
\*               "plain" (a guarded function that makes no model call)
\*   guarded     the handler wraps the call in withLLMGate
\*   systemLen, userLen   lengths of the system and user (or vision) text
\*   max_tokens  Null when the caller leaves it out
\*   fails       the provider fails that many times with `transient' ...
\*   final       ... and then answers `final'
\*   images      the number of entries of imagesBase64 (vision), none unless set
Request(kind, guarded, systemLen, userLen, max_tokens, fails, transient, final) ==
  [kind |-> kind, guarded |-> guarded, systemLen |-> systemLen, userLen |-> userLen,
   max_tokens |-> max_tokens, fails |-> fails, transient |-> transient, final |-> final,
   images |-> 0]

NoRequest == Request("none", FALSE, 0, 0, Null, 0, NoErr, Reply(Null))

MaxTokensOf(r) ==
  IF ~IsNull(r.max_tokens) THEN Val(r.max_tokens)
  ELSE IF r.kind = "json" THEN MAX_TOKENS_JSON
  ELSE IF r.kind = "vision" THEN MAX_TOKENS_VISION
  ELSE MAX_TOKENS_CHAT

\* the vision surcharge is counted once per image
TokensNeeded_PerImage(r) ==
  IF r.kind = "vision"
    THEN estimateTokensFromText(r.userLen) + estimateTokensFromText(r.systemLen)
         + VISION_TOK * r.images + Max(0, MaxTokensOf(r))
    ELSE buildTokenCost(r.systemLen, r.userLen, MaxTokensOf(r))

\* tokensNeeded of the three operations (lines 193, 251, 306-308)
TokensNeeded(r) ==
  IF r.kind = "vision"
    THEN estimateTokensFromText(r.userLen) + estimateTokensFromText(r.systemLen)
         + VISION_TOK + Max(0, MaxTokensOf(r))
    ELSE buildTokenCost(r.systemLen, r.userLen, MaxTokensOf(r))

\* the outcome of the n-th invocation of the provider during request r
Provider(r, n) == IF n <= r.fails THEN Throws(r.transient) ELSE r.final

(* provider errors used as inputs *)
E503        == Err(503, "", "", "Service Unavailable", Null, Null)
ETimedOut   == Err(0, "ETIMEDOUT", "", "Request timed out.", Null, Null)
E400        == Err(400, "invalid_request_error", "", "Bad request", Null, Null)
E429Plain   == Err(429, "rate_limit_exceeded", "requests", "Rate limit reached", Null, Null)
E429Msg     == Err(429, "rate_limit_exceeded", "requests",
                   "Rate limit reached. Please try again in 45s.", Null, Null)
E429RespHdr == Err(429, "rate_limit_exceeded", "requests", "Rate limit reached", Some("15"), Null)
E429Hdr     == Err(429, "rate_limit_exceeded", "requests", "Rate limit reached", Null, Some("45"))
E429Zero    == Err(429, "rate_limit_exceeded", "requests", "Rate limit reached", Some("0"), Null)
E429Date    == Err(429, "rate_limit_exceeded", "requests", "Rate limit reached",
                   Some("Wed, 21 Oct 2026 07:28:00 GMT"), Null)
E429Quota   == Err(429, "insufficient_quota", "insufficient_quota",
                   "You exceeded your current quota, please check your plan and billing details.",
                   Null, Null)
E429QuotaMsg == Err(429, "", "", "Your account has Insufficient Quota", Null, Some("45"))

TransientErrors == {E503, ETimedOut}
ThrottleErrors  == {E429Plain, E429Msg, E429RespHdr, E429Hdr, E429Zero, E429Date}
QuotaErrors     == {E429Quota, E429QuotaMsg}
OtherErrors     == {E400}

\* further errors the operations are probed with: 429s with every combination
\* of code, type and message; failures of every kind of status and a
\* connection reset; rate-limit 429s with every combination of the two
\* retry-after headers and the message
ProbeErrors ==
  { Err(429, c, t, m, Null, Null) :
      c \in {"", "insufficient_quota", "rate_limit_exceeded"},
      t \in {"", "insufficient_quota", "tokens"},
      m \in {"", "Rate limit reached", "insufficient_quota", "Insufficient quota for this key",
             "You EXCEEDED your current quota", "Billing hard limit has been reached"} }
  \cup { Err(st, "", "", "Request failed", Null, Null) :
           st \in {401, 404, 408, 409, 500, 501, 502, 504, 505} }
  \cup { Err(0, "ECONNRESET", "", "socket hang up", Null, Null) }
  \cup { Err(429, "rate_limit_exceeded", "requests", m, rh, h) :
           m \in {"Rate limit reached", "Rate limit reached. Please try again in 7s."},
           rh \in {Null, Some("15"), Some("")},
           h \in {Null, Some("45")} }

(* message contents used as inputs *)
TextSalvageExample == "prefix text {\"a\":1,\"b\":[2,3]} "
TextSalvageable    == "prefix text {\"a\":1,\"b\":[2,3]}"
TextStrictJson     == "{\"a\":1,\"b\":[2,3]}"
TextNotJson        == "sorry, no JSON"
TextPlain          == " ok \n"
Contents == {Some(TextSalvageExample), Some(TextSalvageable), Some(TextStrictJson),
             Some(TextNotJson), Some(TextPlain), Some(""), Null}

\* {a:1, b:[2,3]}
ObjectA1B23 ==
  JObject(<<Member("a", JNumber(1)), Member("b", JArray(<<JNumber(2), JNumber(3)>>))>>)

(* ------------------------------- state --------------------------------- *)
VARIABLES
  now,             \* Date.now()
  _rpmTimestamps,  \* admission instants of the last 60 s, oldest first
  _tpmEvents,      \* [ts, tokens] of the last 60 s, oldest first
  _cooldownUntil,  \* a JS number: the cooldown deadline
  _lastAt,         \* softThrottle: instant of the last call let through
  llmBusy,         \* the latch of withLLMGate
  haveClient,      \* newClient() succeeds (credential and package present)
  pc,              \* where each handler's operation stands
  req,             \* the request each handler is serving
  wakeAt,          \* deadline of the timer an operation sleeps on (0: none)
  waitStart,       \* waitFree: start = Date.now()
  calls,           \* provider invocations made for the current request
  result,          \* how the operation ended: [how, value]
  issued,          \* requests issued so far
  lastThrottle,    \* the latest throttling classification: [at, sec, prev]
  diag,            \* the body a diagnostic route is about to send (NoDiag: none)
  event,           \* db.js, table Event: the ids of the stored events
  userEvent,       \* db.js, table UserEvent: [eventId, userId] links, one per event
  dbCall,          \* the latest call of removeEvent: [id, userId, ret], or NoCall
  invocations,     \* the provider's side: [ts, tokens] of the calls it received in
                   \* the 60 s up to the latest one (tokens: 0 for a retry)
  payload,         \* db.js, table Event: the blocks marked done in a stored plan, by id
  patch,           \* PATCH /planner/:id/block: [pc, found] of each request in progress
  votes,           \* feedbackStore.js: state.votes
  file,            \* feedbackStore.js: the votes written to DB_FILE
  writing,         \* feedbackStore.js: writes queued on the promise chain
  lastVote         \* the users' side: the vote each user sent last, by history item

vars == <<now, _rpmTimestamps, _tpmEvents, _cooldownUntil, _lastAt, llmBusy, haveClient,
          pc, req, wakeAt, waitStart, calls, result, issued, lastThrottle, diag,
          event, userEvent, dbCall, invocations, payload, patch, votes, file, writing,
          lastVote>>

planVars == <<payload, patch>>
voteVars == <<votes, file, writing, lastVote>>

NoCall == [id |-> 0, userId |-> Null, ret |-> 0]

\* prev is the deadline the classification replaced
NoThrottle  == [armed |-> FALSE, at |-> 0, sec |-> Num(0), prev |-> Num(0)]

(* ------------------- what an operation returns ------------------------- *)
\* how a call ended for its caller: a returned value or a thrown error
NoResult == [how |-> "none", value |-> JNull]
Returned(v) == [how |-> "return", value |-> v]
Thrown      == [how |-> "throw",  value |-> JNull]

\* the value returned for a response (lines 218-220, 276-280, 338)
OnResponse(kind, content) ==
  IF kind = "json"
    THEN OrNull(ParseJsonReply(IF IsNull(content) THEN "" ELSE Val(content)))
    ELSE IF IsNull(content) \/ Trim(Val(content)) = "" THEN JNull
         ELSE JString(Trim(Val(content)))

\* the value returned from the catch block (lines 221-241, 281-295, 339-353)
OnError(kind, e) ==
  IF e.status = 429
    THEN IF classify429(e) = "insufficient_quota" THEN QuotaSignal
         ELSE RateLimitSignal(RetryAfterSec(kind, e))
    ELSE JNull

\* every error that ends the call arms the cooldown
ArmsCooldown_AnyError(e) == TRUE
\* every 429 arms the cooldown
ArmsCooldown_Any429(e) == e.status = 429
\* the catch block arms the cooldown exactly for a throttling 429
ArmsCooldown(e) == e.status = 429 /\ classify429(e) = "rate_limit"

\* the hint is added as milliseconds
NextCooldown_Seconds(t, retryAfterSec) == NumPlus(t, retryAfterSec)
\* the later of the old and the new deadline is kept
NextCooldown_Merge(t, retryAfterSec) ==
  LET new == NumPlus(t, NumTimes(retryAfterSec, 1000))
  IN  IF ~new.nan /\ ~_cooldownUntil.nan /\ _cooldownUntil.v > new.v THEN _cooldownUntil ELSE new
\* _cooldownUntil = Date.now() + retryAfterSec * 1000
NextCooldown(t, retryAfterSec) == NumPlus(t, NumTimes(retryAfterSec, 1000))

\* The dispatcher's reaction to every reply used as an input, computed once.
Kinds     == {"chat", "json", "vision"}
AllErrors == TransientErrors \cup ThrottleErrors \cup QuotaErrors \cup OtherErrors
               \cup ProbeErrors
ResponseValue == [k \in Kinds, c \in Contents |-> OnResponse(k, c)]
\* only a 429 is turned into a value, any other error is thrown on
CatchBlock_Rethrows(kind, e) == IF e.status = 429 THEN Returned(OnError(kind, e)) ELSE Thrown
\* every error thrown inside the try block is caught and turned into a value
CatchBlock(kind, e) == Returned(OnError(kind, e))
ErrorValue    == [k \in Kinds, e \in AllErrors |-> CatchBlock(k, e)]
ErrorArms     == [e \in AllErrors |-> ArmsCooldown(e)]
ErrorHint     == [k \in Kinds, e \in AllErrors |-> RetryAfterSec(k, e)]
ErrorGivesUp  == [e \in AllErrors, i \in 0..RETRIES |-> GiveUp(e, i, RETRIES)]

(* --------------------------- rate windows ------------------------------ *)
\* the request window is never pruned
PruneRpm_Never(w, t) == w

\* while (w.length && (now - w[0]) >= WINDOW) w.shift()
RECURSIVE PruneRpm(_, _)
PruneRpm(w, t) ==
  IF Len(w) > 0 /\ t - Head(w) >= WINDOW THEN PruneRpm(Tail(w), t) ELSE w

\* an entry of age exactly 60 s is kept
RECURSIVE _tpmPrune_KeepsBoundary(_, _)
_tpmPrune_KeepsBoundary(w, t) ==
  IF Len(w) > 0 /\ t - Head(w).ts > WINDOW THEN _tpmPrune_KeepsBoundary(Tail(w), t) ELSE w

\* the window is taken to be half as long
RECURSIVE _tpmPrune_HalfWindow(_, _)
_tpmPrune_HalfWindow(w, t) ==
  IF Len(w) > 0 /\ 2 * (t - Head(w).ts) >= WINDOW THEN _tpmPrune_HalfWindow(Tail(w), t) ELSE w

\* lines 110-114
RECURSIVE _tpmPrune(_, _)
_tpmPrune(w, t) ==
  IF Len(w) > 0 /\ t - Head(w).ts >= WINDOW THEN _tpmPrune(Tail(w), t) ELSE w

RECURSIVE SumTokens(_)
SumTokens(w) == IF Len(w) = 0 THEN 0 ELSE Head(w).tokens + SumTokens(Tail(w))

\* _tpmUsedNow(): prune, then sum
_tpmUsedNow(w, t) == SumTokens(_tpmPrune(w, t))

\* the check forgets the cost of the call being admitted
TpmFits_IgnoresRequest(used, tokensNeeded, limit) == used <= limit
\* an empty window admits any cost
TpmFits_EmptyAdmits(used, tokensNeeded, limit) ==
  used = 0 \/ used + tokensNeeded <= limit
\* tpmGate line 125
TpmFits(used, tokensNeeded, limit) == used + tokensNeeded <= limit
\* the last slot is handed out once too often
RpmFree_OffByOne(used, limit) == used <= limit
\* rpmGate line 165
RpmFree(used, limit) == used < limit

\* getCooldownMs(): Math.max(0, _cooldownUntil - Date.now())
getCooldownMs(until, t) == IF until.nan THEN NaN ELSE Num(Max(0, until.v - t))

(* ----------------------------- diagnostics ----------------------------- *)
NoDiag == [route |-> "none"]

\* getRpmState drops the oldest entry whatever its age
DiagPruneRpm_DropsOldest(w, t) == IF Len(w) > 0 THEN Tail(w) ELSE w
\* getRpmState line 141: the loop of rpmGate once more
RECURSIVE DiagPruneRpm(_, _)
DiagPruneRpm(w, t) ==
  IF Len(w) > 0 /\ t - Head(w) >= WINDOW THEN DiagPruneRpm(Tail(w), t) ELSE w

\* getRpmState(): what it returns for the pruned window
getRpmState(w, t) ==
  LET p == DiagPruneRpm(w, t)
  IN  [limit |-> OPENAI_RPM_LIMIT, used |-> Len(p),
       nextFreeMs |-> IF Len(p) > 0 /\ Head(p) # 0 THEN WINDOW - (t - Head(p)) ELSE 0]

\* getTpmState(): _tpmPrune(), then the limit and _tpmUsedNow()
getTpmState(w, t) == [limit |-> OPENAI_TPM_LIMIT, used |-> _tpmUsedNow(_tpmPrune(w, t), t)]

(* ------------------------------ actions -------------------------------- *)
Awake(o) == wakeAt[o] <= now

\* an operation in the middle of a synchronous run: it is at a step it
\* reached without suspending; the others wait until it suspends or ends
Active(o) ==
  /\ pc[o] \in {"waitFree", "acquire", "tpmGate", "rpmGate", "softThrottle", "invoke", "done"}
  /\ wakeAt[o] = 0
\* A caller whose waitFree() has returned is suspended on the await of
\* withLLMGate: its continuation is queued, and until it runs the rest of the
\* turn runs (a request handled in the same turn reaches its own waitFree());
\* no timer fires, no answer arrives and no time passes meanwhile.
MayRun(o) ==
  /\ diag = NoDiag
  /\ \A p \in Ops :
       (p # o /\ Active(p)) => (pc[p] = "acquire" /\ (Active(o) \/ pc[o] = "idle"))
\* nothing is in the middle of a synchronous run
Quiet == diag = NoDiag /\ \A p \in Ops : ~Active(p)

\* the latch is cleared on a normal return only
Finish_NoFinally(o, res) ==
  /\ result' = [result EXCEPT ![o] = res]
  /\ pc' = [pc EXCEPT ![o] = "done"]
  /\ wakeAt' = [wakeAt EXCEPT ![o] = 0]
  /\ llmBusy' = IF req[o].guarded /\ res.how = "return" THEN FALSE ELSE llmBusy

\* the operation ends: its value goes to the handler, and the finally block of
\* withLLMGate clears the latch when the call was guarded
Finish(o, res) ==
  /\ result' = [result EXCEPT ![o] = res]
  /\ pc' = [pc EXCEPT ![o] = "done"]
  /\ wakeAt' = [wakeAt EXCEPT ![o] = 0]
  /\ llmBusy' = IF req[o].guarded THEN FALSE ELSE llmBusy

\* a route handler issues request r: withLLMGate(fn) for a guarded one
\* (waitFree takes start = Date.now()), the operation itself otherwise.
\* Handlers are interchangeable: the idle one of lowest number serves it.
Start(o, r) ==
  /\ MayRun(o)
  /\ pc[o] = "idle"
  /\ issued < MaxRequests
  /\ r.guarded \/ r.kind # "plain"
  /\ \A p \in Ops : p < o => pc[p] # "idle"
  /\ issued' = issued + 1
  /\ req' = [req EXCEPT ![o] = r]
  /\ result' = [result EXCEPT ![o] = NoResult]
  /\ calls' = [calls EXCEPT ![o] = 0]
  /\ wakeAt' = [wakeAt EXCEPT ![o] = 0]
  /\ waitStart' = [waitStart EXCEPT ![o] = IF r.guarded THEN now ELSE 0]
  /\ pc' = [pc EXCEPT ![o] = IF r.guarded THEN "waitFree" ELSE "tpmGate"]
  /\ UNCHANGED <<now, _rpmTimestamps, _tpmEvents, _cooldownUntil, _lastAt, llmBusy,
                 haveClient, event, userEvent, dbCall, invocations, planVars, voteVars, lastThrottle, diag>>

\* the loop waits for the flag alone
StillBusy_NoCeiling(busy, start, t) == busy
\* the condition of waitFree's loop
StillBusy(busy, start, t) == busy /\ t - start < WAIT_CEILING_MS

\* one iteration of waitFree's loop; when the loop ends waitFree() returns
\* and the caller is suspended on the await of withLLMGate
WaitFree(o) ==
  /\ MayRun(o)
  /\ pc[o] = "waitFree"
  /\ Awake(o)
  /\ IF StillBusy(llmBusy, waitStart[o], now)
       THEN /\ wakeAt' = [wakeAt EXCEPT ![o] = now + WAIT_POLL_MS]
            /\ UNCHANGED <<pc, waitStart>>
       ELSE /\ wakeAt' = [wakeAt EXCEPT ![o] = 0]
            /\ waitStart' = [waitStart EXCEPT ![o] = 0]
            /\ pc' = [pc EXCEPT ![o] = "acquire"]
  /\ UNCHANGED <<now, _rpmTimestamps, _tpmEvents, _cooldownUntil, _lastAt, llmBusy,
                 haveClient, event, userEvent, dbCall, invocations, planVars, voteVars, req, calls, result, issued, lastThrottle, diag>>

\* the continuation of withLLMGate: llmBusy = true, then the call of fn
Acquire(o) ==
  /\ MayRun(o)
  /\ pc[o] = "acquire"
  /\ llmBusy' = TRUE
  /\ pc' = [pc EXCEPT ![o] = IF req[o].kind = "plain" THEN "plainFn" ELSE "tpmGate"]
  /\ UNCHANGED <<now, _rpmTimestamps, _tpmEvents, _cooldownUntil, _lastAt, haveClient, event, userEvent, dbCall, invocations, planVars, voteVars,
                 req, wakeAt, waitStart, calls, result, issued, lastThrottle, diag>>

\* a guarded function that makes no model call returns or throws
PlainFn(o) ==
  /\ MayRun(o)
  /\ pc[o] = "plainFn"
  /\ Finish(o, IF req[o].final.ok THEN Returned(JNull) ELSE Thrown)
  /\ UNCHANGED <<now, _rpmTimestamps, _tpmEvents, _cooldownUntil, _lastAt, haveClient, event, userEvent, dbCall, invocations, planVars, voteVars,
                 req, waitStart, calls, issued, lastThrottle, diag>>

\* tpmGate lets the call through without recording its cost
TpmGate_NoRecord(o) ==
  /\ MayRun(o)
  /\ pc[o] = "tpmGate"
  /\ Awake(o)
  /\ pc' = [pc EXCEPT ![o] = "rpmGate"]
  /\ wakeAt' = [wakeAt EXCEPT ![o] = 0]
  /\ UNCHANGED <<now, _rpmTimestamps, _tpmEvents, _cooldownUntil, _lastAt, llmBusy, haveClient, event, userEvent, dbCall, invocations, planVars, voteVars,
                 req, waitStart, calls, result, issued, lastThrottle, diag>>
\* the reservation is put at the head of the window
TpmGate_RecordsAtHead(o) ==
  /\ MayRun(o)
  /\ pc[o] = "tpmGate"
  /\ Awake(o)
  /\ LET w      == _tpmPrune(_tpmEvents, now)
         needed == TokensNeeded(req[o])
     IN  IF TpmFits(_tpmUsedNow(w, now), needed, OPENAI_TPM_LIMIT)
           THEN /\ _tpmEvents' = <<[ts |-> now, tokens |-> needed]>> \o w
                /\ wakeAt' = [wakeAt EXCEPT ![o] = 0]
                /\ pc' = [pc EXCEPT ![o] = "rpmGate"]
           ELSE LET nextFreeMs == IF Len(w) > 0 THEN Max(0, WINDOW - (now - Head(w).ts))
                                  ELSE 250
                IN  /\ _tpmEvents' = w
                    /\ wakeAt' = [wakeAt EXCEPT ![o] = now + Min(nextFreeMs, 1500)]
                    /\ UNCHANGED pc
  /\ UNCHANGED <<now, _rpmTimestamps, _cooldownUntil, _lastAt, llmBusy, haveClient, event,
                 userEvent, dbCall, invocations, planVars, voteVars,
                 req, waitStart, calls, result, issued, lastThrottle, diag>>

\* one iteration of tpmGate's loop
TpmGate(o) ==
  /\ MayRun(o)
  /\ pc[o] = "tpmGate"
  /\ Awake(o)
  /\ LET w      == _tpmPrune(_tpmEvents, now)
         needed == TokensNeeded(req[o])
     IN  IF TpmFits(_tpmUsedNow(w, now), needed, OPENAI_TPM_LIMIT)
           THEN /\ _tpmEvents' = Append(w, [ts |-> now, tokens |-> needed])
                /\ wakeAt' = [wakeAt EXCEPT ![o] = 0]
                /\ pc' = [pc EXCEPT ![o] = "rpmGate"]
           ELSE LET nextFreeMs == IF Len(w) > 0 THEN Max(0, WINDOW - (now - Head(w).ts))
                                  ELSE 250
                IN  /\ _tpmEvents' = w
                    /\ wakeAt' = [wakeAt EXCEPT ![o] = now + Min(nextFreeMs, 1500)]
                    /\ UNCHANGED pc
  /\ UNCHANGED <<now, _rpmTimestamps, _cooldownUntil, _lastAt, llmBusy, haveClient, event, userEvent, dbCall, invocations, planVars, voteVars,
                 req, waitStart, calls, result, issued, lastThrottle, diag>>

\* rpmGate looks at the cooldown on its first iteration only
RpmGate_ChecksOnce(o) ==
  /\ MayRun(o)
  /\ pc[o] = "rpmGate"
  /\ Awake(o)
  /\ LET cd == getCooldownMs(_cooldownUntil, now)
         w  == PruneRpm(_rpmTimestamps, now)
     IN  IF wakeAt[o] = 0 /\ NumPositive(cd)
           THEN /\ wakeAt' = [wakeAt EXCEPT ![o] = now + Min(cd.v, 1000)]
                /\ UNCHANGED <<_rpmTimestamps, pc>>
           ELSE IF RpmFree(Len(w), OPENAI_RPM_LIMIT)
                  THEN /\ _rpmTimestamps' = Append(w, now)
                       /\ wakeAt' = [wakeAt EXCEPT ![o] = 0]
                       /\ pc' = [pc EXCEPT ![o] = "softThrottle"]
                  ELSE /\ _rpmTimestamps' = w
                       /\ wakeAt' = [wakeAt EXCEPT ![o] =
                                        now + Max(50, WINDOW - (now - Head(w)) + 30)]
                       /\ UNCHANGED pc
  /\ UNCHANGED <<now, _tpmEvents, _cooldownUntil, _lastAt, llmBusy, haveClient, event, userEvent, dbCall, invocations, planVars, voteVars,
                 req, waitStart, calls, result, issued, lastThrottle, diag>>
\* one iteration of rpmGate's loop
RpmGate(o) ==
  /\ MayRun(o)
  /\ pc[o] = "rpmGate"
  /\ Awake(o)
  /\ LET cd == getCooldownMs(_cooldownUntil, now)
     IN  IF NumPositive(cd)
           THEN /\ wakeAt' = [wakeAt EXCEPT ![o] = now + Min(cd.v, 1000)]
                /\ UNCHANGED <<_rpmTimestamps, pc>>
           ELSE LET w == PruneRpm(_rpmTimestamps, now)
                IN  IF RpmFree(Len(w), OPENAI_RPM_LIMIT)
                      THEN /\ _rpmTimestamps' = Append(w, now)
                           /\ wakeAt' = [wakeAt EXCEPT ![o] = 0]
                           /\ pc' = [pc EXCEPT ![o] = "softThrottle"]
                      ELSE /\ _rpmTimestamps' = w
                           /\ wakeAt' = [wakeAt EXCEPT ![o] =
                                            now + Max(50, WINDOW - (now - Head(w)) + 30)]
                           /\ UNCHANGED pc
  /\ UNCHANGED <<now, _tpmEvents, _cooldownUntil, _lastAt, llmBusy, haveClient, event, userEvent, dbCall, invocations, planVars, voteVars,
                 req, waitStart, calls, result, issued, lastThrottle, diag>>

\* after softThrottle: newClient(); a setup error is caught and becomes null
AfterThrottle(o) ==
  IF haveClient
    THEN /\ pc' = [pc EXCEPT ![o] = "invoke"]
         /\ wakeAt' = [wakeAt EXCEPT ![o] = 0]
         /\ UNCHANGED <<result, llmBusy>>
    ELSE Finish(o, Returned(JNull))

\* softThrottle up to its await
SoftThrottle(o) ==
  /\ MayRun(o)
  /\ pc[o] = "softThrottle"
  /\ LET delta == now - _lastAt
     IN  IF delta < MIN_GAP_MS
           THEN /\ wakeAt' = [wakeAt EXCEPT ![o] = now + (MIN_GAP_MS - delta)]
                /\ pc' = [pc EXCEPT ![o] = "softWake"]
                /\ UNCHANGED <<_lastAt, result, llmBusy>>
           ELSE /\ _lastAt' = now
                /\ AfterThrottle(o)
  /\ UNCHANGED <<now, _rpmTimestamps, _tpmEvents, _cooldownUntil, haveClient, event, userEvent, dbCall, invocations, planVars, voteVars,
                 req, waitStart, calls, issued, lastThrottle, diag>>

\* softThrottle after its sleep: _lastAt = Date.now()
SoftWake(o) ==
  /\ MayRun(o)
  /\ pc[o] = "softWake"
  /\ Awake(o)
  /\ _lastAt' = now
  /\ AfterThrottle(o)
  /\ UNCHANGED <<now, _rpmTimestamps, _tpmEvents, _cooldownUntil, haveClient, event, userEvent, dbCall, invocations, planVars, voteVars,
                 req, waitStart, calls, issued, lastThrottle, diag>>

\* the handler has its value (or the error) and ends
Respond(o) ==
  /\ MayRun(o)
  /\ pc[o] = "done"
  /\ pc' = [pc EXCEPT ![o] = "idle"]
  /\ req' = [req EXCEPT ![o] = NoRequest]
  /\ result' = [result EXCEPT ![o] = NoResult]
  /\ calls' = [calls EXCEPT ![o] = 0]
  /\ UNCHANGED <<now, _rpmTimestamps, _tpmEvents, _cooldownUntil, _lastAt, llmBusy,
                 haveClient, event, userEvent, dbCall, invocations, planVars, voteVars, wakeAt, waitStart, issued, lastThrottle, diag>>

\* withRetry calls fn(): the request goes to the provider
Invoke(o) ==
  /\ MayRun(o)
  /\ pc[o] = "invoke"
  /\ Awake(o)
  /\ calls' = [calls EXCEPT ![o] = @ + 1]
  /\ pc' = [pc EXCEPT ![o] = "inFlight"]
  /\ wakeAt' = [wakeAt EXCEPT ![o] = 0]
  /\ invocations' =
       Append(SelectSeq(invocations, LAMBDA c : now - c.ts < WINDOW),
              [ts |-> now, tokens |-> IF calls[o] = 0 THEN TokensNeeded(req[o]) ELSE 0])
  /\ UNCHANGED <<now, _rpmTimestamps, _tpmEvents, _cooldownUntil, _lastAt, llmBusy,
                 haveClient, event, userEvent, dbCall, planVars, voteVars, req, waitStart, result, issued, lastThrottle, diag>>

\* Math.floor(Math.random() * 250), its extremes
Jitters == {0, 249}

\* the provider answers: a response is turned into the operation's value; a
\* failure is retried after a backoff sleep, or thrown to the catch block
Answer(o) ==
  /\ MayRun(o)
  /\ pc[o] = "inFlight"
  /\ LET out  == Provider(req[o], calls[o])
         kind == req[o].kind
         i    == calls[o] - 1
     IN  IF out.ok
           THEN /\ Finish(o, Returned(ResponseValue[kind, out.content]))
                /\ UNCHANGED <<_cooldownUntil, lastThrottle>>
         ELSE IF ~ErrorGivesUp[out.err, i]
           THEN /\ \E jitter \in Jitters :
                      wakeAt' = [wakeAt EXCEPT ![o] = now + BASE_DELAY * Pow2(i) + jitter]
                /\ pc' = [pc EXCEPT ![o] = "invoke"]
                /\ UNCHANGED <<result, llmBusy, _cooldownUntil, lastThrottle>>
         ELSE /\ Finish(o, ErrorValue[kind, out.err])
              /\ IF ErrorArms[out.err]
                   THEN LET sec == ErrorHint[kind, out.err]
                        IN  /\ _cooldownUntil' = NextCooldown(now, sec)
                            /\ lastThrottle' = [armed |-> TRUE, at |-> now, sec |-> sec,
                                                prev |-> _cooldownUntil]
                   ELSE UNCHANGED <<_cooldownUntil, lastThrottle>>
  /\ UNCHANGED <<now, _rpmTimestamps, _tpmEvents, _lastAt, haveClient, event, userEvent, dbCall, invocations, planVars, voteVars,
                 req, waitStart, calls, issued, diag>>

\* time passes once the timers that are due have fired
Tick ==
  /\ Quiet
  /\ \A o \in Ops : Awake(o) => wakeAt[o] = 0
  /\ now + TickMs <= MaxTime
  /\ now' = now + TickMs
  /\ UNCHANGED <<_rpmTimestamps, _tpmEvents, _cooldownUntil, _lastAt, llmBusy, haveClient,
                 event, userEvent, dbCall, invocations, planVars, voteVars, pc, req, wakeAt, waitStart, calls, result,
                 issued, lastThrottle, diag>>

\* GET /diag/rpm
DiagRpm ==
  /\ Quiet
  /\ _rpmTimestamps' = DiagPruneRpm(_rpmTimestamps, now)
  /\ diag' = [route |-> "rpm", rpm |-> getRpmState(_rpmTimestamps, now)]
  /\ UNCHANGED <<now, _tpmEvents, _cooldownUntil, _lastAt, llmBusy, haveClient, event, userEvent, dbCall, invocations, planVars, voteVars,
                 pc, req, wakeAt, waitStart, calls, result, issued, lastThrottle>>

\* GET /diag/limits
DiagLimits ==
  /\ Quiet
  /\ _rpmTimestamps' = DiagPruneRpm(_rpmTimestamps, now)
  /\ _tpmEvents' = _tpmPrune(_tpmEvents, now)
  /\ diag' = [route |-> "limits", rpm |-> getRpmState(_rpmTimestamps, now),
               tpm |-> getTpmState(_tpmEvents, now),
               cooldownMs |-> getCooldownMs(_cooldownUntil, now)]
  /\ UNCHANGED <<now, _cooldownUntil, _lastAt, llmBusy, haveClient, event, userEvent, dbCall, invocations, planVars, voteVars,
                 pc, req, wakeAt, waitStart, calls, result, issued, lastThrottle>>

\* res.json(...): the diagnostic route has answered
DiagSend ==
  /\ diag # NoDiag
  /\ diag' = NoDiag
  /\ UNCHANGED <<now, _rpmTimestamps, _tpmEvents, _cooldownUntil, _lastAt, llmBusy, haveClient, event, userEvent, dbCall, invocations, planVars, voteVars,
                 pc, req, wakeAt, waitStart, calls, result, issued, lastThrottle>>

(* ----------------------------- requests -------------------------------- *)
MaxEvents == 3   \* ids of stored events: 1..MaxEvents
NPatchers == 2   \* concurrent PATCH /planner/:id/block requests
Patchers == 1..NPatchers

MaxWrites  == 2   \* writes of the feedback file queued at once
\* the ids the feedback route accepts: non-empty trimmed strings
UserIds    == {"u", "u|h"}
HistoryIds == {"h", "h|h"}
Small == 8       \* a short prompt (characters)
Large == 24000   \* a long prompt (characters)
Huge == 48004    \* a prompt whose estimate alone is above the token ceiling

\* one step of the operation of handler o
Step(o) ==
  \/ WaitFree(o)
  \/ Acquire(o)
  \/ PlainFn(o)
  \/ TpmGate(o)
  \/ RpmGate(o)
  \/ SoftThrottle(o)
  \/ SoftWake(o)
  \/ Invoke(o)
  \/ Answer(o)
  \/ Respond(o)

Setup(clientOk) ==
  /\ now = T0
  /\ _rpmTimestamps = <<>>
  /\ _tpmEvents = <<>>
  /\ _cooldownUntil = Num(0)
  /\ _lastAt = 0
  /\ llmBusy = FALSE
  /\ haveClient = clientOk
  /\ pc = [o \in Ops |-> "idle"]
  /\ req = [o \in Ops |-> NoRequest]
  /\ wakeAt = [o \in Ops |-> 0]
  /\ waitStart = [o \in Ops |-> 0]
  /\ calls = [o \in Ops |-> 0]
  /\ result = [o \in Ops |-> NoResult]
  /\ issued = 0
  /\ lastThrottle = NoThrottle
  /\ diag = NoDiag
  /\ event = {}
  /\ userEvent = {}
  /\ dbCall = NoCall
  /\ invocations = <<>>
  /\ payload = [id \in 1..MaxEvents |-> {}]
  /\ patch = [p \in Patchers |-> [pc |-> "none", id |-> 0, found |-> Null]]
  /\ votes = <<>>
  /\ file = <<>>
  /\ writing = 0
  /\ lastVote = [u \in UserIds, h \in HistoryIds |-> "none"]

(* Concurrent handlers at the admission gates, as the routes call the       *)
(* operations: askLLMJson outside withLLMGate (POST /chat/extract-materias,  *)
(* max_tokens 140), askLLMJson inside withLLMGate (the planner, max_tokens   *)
(* 900), and a guarded function that throws before any model call.           *)
Requests ==
  { Request("json",   FALSE, 0, Small, Some(140), 0, E503, Reply(Some(TextStrictJson))),
    Request("json",   TRUE,  0, Large, Some(900), 0, E503, Throws(E429Msg)),
    Request("plain",  TRUE,  0, 0,     Null,      0, E503, Throws(E400)) }

Init == Setup(TRUE)

Next ==
  \/ \E o \in Ops : \E r \in Requests : Start(o, r)
  \/ \E o \in Ops : Step(o)
  \/ Tick

Spec == Init /\ [][Next]_vars


(* Handlers that make model calls, with timers that fire exactly at their    *)
(* deadline: the clock moves from one deadline to the next.  The calls are   *)
(* askLLMJson outside withLLMGate (POST /chat/extract-materias),             *)
(* askLLMVision outside withLLMGate (POST /chat, vision branch) and          *)
(* askLLMJson inside withLLMGate (the planner).                              *)
TimedHorizon == 1000   \* the clock stops at T0 + TimedHorizon

TimedRequests ==
  { Request("json",   FALSE, 0, Small, Some(140), 0, E503, Reply(Some(TextStrictJson))),
    Request("vision", FALSE, 0, Small, Null,      0, E503, Throws(E429RespHdr)),
    Request("json",   TRUE,  0, Small, Some(900), 0, E503, Throws(E429Msg)) }

\* the earliest deadline among the sleeping operations
Sleepers == {o \in Ops : wakeAt[o] > now}
NextDeadline == CHOOSE t \in {wakeAt[o] : o \in Sleepers} : \A o \in Sleepers : t <= wakeAt[o]

\* time passes until the next timer is due
AdvanceWithin(horizon) ==
  /\ Quiet
  /\ Sleepers # {}
  /\ NextDeadline <= T0 + horizon
  /\ now' = NextDeadline
  /\ UNCHANGED <<_rpmTimestamps, _tpmEvents, _cooldownUntil, _lastAt, llmBusy, haveClient, event, userEvent, dbCall, invocations, planVars, voteVars,
                 pc, req, wakeAt, waitStart, calls, result, issued, lastThrottle, diag>>

\* the requests arrive in a burst, all at the first instant
TimedStart(o, r) == now = T0 /\ Start(o, r)

\* one step of a model call of handler o
CallStep(o) ==
  \/ WaitFree(o)
  \/ Acquire(o)
  \/ TpmGate(o)
  \/ RpmGate(o)
  \/ SoftThrottle(o)
  \/ SoftWake(o)
  \/ Invoke(o)
  \/ Answer(o)
  \/ Respond(o)

Advance == AdvanceWithin(TimedHorizon)

NextTimed ==
  \/ \E o \in Ops : \E r \in TimedRequests : TimedStart(o, r)
  \/ \E o \in Ops : CallStep(o)
  \/ Advance

SpecTimed == Init /\ [][NextTimed]_vars

(* The windows over a full minute, with timers that fire exactly at their    *)
(* deadline: a burst of unguarded askLLMJson calls at the first instant, a   *)
(* short one that the provider fails once with a 503 (and that withRetry     *)
(* repeats), and a long one.                                                 *)
WindowHorizon == 60000   \* the clock stops at T0 + WindowHorizon

WindowRequests ==
  { Request("json", FALSE, 0, Small, Some(140), 0, E503, Reply(Some(TextStrictJson))),
    Request("json", FALSE, 0, Small, Some(140), 1, E503, Reply(Some(TextStrictJson))),
    Request("json", FALSE, 0, Large, Some(900), 0, E503, Reply(Some(TextStrictJson))) }

\* one step of an unguarded model call of handler o
WindowStep(o) ==
  \/ TpmGate(o)
  \/ RpmGate(o)
  \/ SoftThrottle(o)
  \/ SoftWake(o)
  \/ Invoke(o)
  \/ Answer(o)
  \/ Respond(o)

NextWindow ==
  \/ \E o \in Ops : \E r \in WindowRequests : TimedStart(o, r)
  \/ \E o \in Ops : WindowStep(o)
  \/ AdvanceWithin(WindowHorizon)

SpecWindow == Init /\ [][NextWindow]_vars

(* Guarded model calls and a provider that takes longer to answer than the  *)
(* clock runs (its timeout is 55 s): whoever sets the latch keeps it.        *)
LatchHorizon == 9000   \* the clock stops at T0 + LatchHorizon

LatchRequests == {r \in TimedRequests : r.guarded}

\* one step of a model call up to the invocation of the provider
HeldStep(o) ==
  \/ WaitFree(o)
  \/ Acquire(o)
  \/ TpmGate(o)
  \/ RpmGate(o)
  \/ SoftThrottle(o)
  \/ Invoke(o)

LatchAdvance == AdvanceWithin(LatchHorizon)

NextLatch ==
  \/ \E o \in Ops : \E r \in LatchRequests : TimedStart(o, r)
  \/ \E o \in Ops : HeldStep(o)
  \/ LatchAdvance

SpecLatch == Init /\ [][NextLatch]_vars

MaxLen    == 4
MaxImages == 2

(* One handler and every reply of the provider: the dispatcher, the retry   *)
(* policy and the result classifier on their own.                           *)
FailCounts == 0..(RETRIES + 1)

Finals ==
  {Reply(c) : c \in Contents}
  \cup {Throws(e) : e \in TransientErrors \cup ThrottleErrors \cup QuotaErrors \cup OtherErrors}

SoloRequests ==
  { Request(k, FALSE, 0, Small, Some(900), n, E503, f) :
      k \in Kinds, n \in FailCounts, f \in Finals }
  \cup { Request(k, TRUE, Small, Large, Null, 1, ETimedOut, f) : k \in Kinds, f \in Finals }
  \cup { Request("plain", TRUE, 0, 0, Null, 0, E503, f) : f \in {Reply(Null), Throws(E400)} }
  \cup { Request(k, FALSE, 0, Small, Some(900), 0, E503, Throws(e)) :
           k \in Kinds, e \in ProbeErrors }
  \cup { Request(k, FALSE, 0, Huge, Null, 0, E503, Reply(Some(TextPlain))) : k \in Kinds }
  \cup UNION { { [Request(k, FALSE, s, u, mt, 0, E503, Reply(Some(TextPlain)))
                     EXCEPT !.images = n] :
                      s \in 0..MaxLen, u \in 0..MaxLen,
                      mt \in {Null, Some(-3), Some(0), Some(7)},
                      n \in IF k = "vision" THEN 0..MaxImages ELSE {0} } : k \in Kinds }

InitSolo == \E clientOk \in BOOLEAN : Setup(clientOk)

\* the handler issues any request first, then requests of the service's own
SoloStart(r) ==
  /\ issued < MaxSoloRequests
  /\ issued = 0 \/ r \in Requests
  /\ Start(1, r)

NextSolo ==
  \/ \E r \in SoloRequests \cup Requests : SoloStart(r)
  \/ Step(1)
  \/ DiagRpm
  \/ DiagLimits
  \/ DiagSend
  \/ Tick

SpecSolo == InitSolo /\ [][NextSolo]_vars

(* The gates over a long stretch of time: the requests of the service       *)
(* arrive, and the provider answers (or throttles), before the second tick   *)
(* or not at all, and the clock goes on for LiveTicks ticks; every step that *)
(* can be taken is taken in the end.                                         *)
LiveTicks   == 8   \* the clock stops at T0 + LiveTicks * TickMs

LiveStep(o) ==
  /\ pc[o] = "inFlight" => now <= T0 + TickMs
  /\ Step(o)

\* time passes, for longer
LiveTick ==
  /\ Quiet
  /\ \A o \in Ops : Awake(o) => wakeAt[o] = 0
  /\ now + TickMs <= T0 + LiveTicks * TickMs
  /\ now' = now + TickMs
  /\ UNCHANGED <<_rpmTimestamps, _tpmEvents, _cooldownUntil, _lastAt, llmBusy, haveClient,
                 event, userEvent, dbCall, invocations, planVars, voteVars, pc, req, wakeAt, waitStart, calls, result,
                 issued, lastThrottle, diag>>

NextLive ==
  \/ \E o \in Ops : \E r \in Requests : now <= T0 + TickMs /\ Start(o, r)
  \/ \E o \in Ops : LiveStep(o)
  \/ LiveTick

SpecLive ==
  /\ Init /\ [][NextLive]_vars
  /\ \A o \in Ops : WF_vars(LiveStep(o))
  /\ WF_vars(LiveTick)

(* ------------------------------ event store --------------------------- *)

\* addEvent(eventObj): event.create fails on an id that is stored already;
\* the owner of the link is eventObj.userId || 'anon'
AddEvent(id, userId) ==
  /\ id \notin event
  /\ event' = event \cup {id}
  /\ userEvent' = {l \in userEvent : l.eventId # id}
                    \cup {[eventId |-> id,
                           userId  |-> IF Truthy(userId) THEN Val(userId) ELSE "anon"]}
  /\ UNCHANGED <<now, _rpmTimestamps, _tpmEvents, _cooldownUntil, _lastAt, llmBusy,
                 haveClient, pc, req, wakeAt, waitStart, calls, result, issued,
                 lastThrottle, diag, dbCall, invocations, planVars, voteVars>>

\* removeEvent(id, userId)
RemoveEvent(id, userId) ==
  /\ LET links == {l \in userEvent : l.eventId = id}
     IN  IF links = {} \/ (Truthy(userId) /\ \A l \in links : l.userId # Val(userId))
           THEN /\ dbCall' = [id |-> id, userId |-> userId, ret |-> 0]
                /\ UNCHANGED <<event, userEvent>>
           ELSE /\ userEvent' = userEvent \ links
                /\ event' = event \ {id}
                /\ dbCall' = [id |-> id, userId |-> userId, ret |-> 1]
  /\ UNCHANGED <<now, _rpmTimestamps, _tpmEvents, _cooldownUntil, _lastAt, llmBusy,
                 haveClient, pc, req, wakeAt, waitStart, calls, result, issued,
                 lastThrottle, diag, invocations, planVars, voteVars>>

\* events are stored and removed, the owner argument being a user's id, the
\* empty string, or absent
NextStore ==
  \E id \in 1..MaxEvents, userId \in {Null, Some(""), Some("ana"), Some("bia")} :
    \/ AddEvent(id, userId)
    \/ RemoveEvent(id, userId)

SpecStore == Init /\ [][NextStore]_vars

(* ---------------------------- feedback store ------------------------- *)
\* key(userId, historyId): `${String(userId)}|${String(historyId)}`
key(userId, historyId) == userId \o "|" \o historyId

\* setVote({ userId, historyId, vote }) as POST /feedback calls it: vote is
\* 'up', 'down', 'none' or the empty string; idx is the result of findIndex
\* (the first record with the call's key, 0 for -1); save() queues a write of
\* the file
SetVote(userId, historyId, vote) ==
  /\ writing < MaxWrites
  /\ LET hits == {i \in 1..Len(votes) :
                    key(votes[i].userId, votes[i].historyId) = key(userId, historyId)}
         idx  == IF hits = {} THEN 0 ELSE CHOOSE i \in hits : \A j \in hits : i <= j
     IN  IF vote = "none" \/ vote = ""
           THEN IF idx > 0
                  THEN /\ votes' = SubSeq(votes, 1, idx - 1) \o SubSeq(votes, idx + 1, Len(votes))
                       /\ writing' = writing + 1
                  ELSE UNCHANGED <<votes, writing>>
           ELSE /\ votes' = IF idx > 0
                              THEN [votes EXCEPT ![idx].vote = vote]
                              ELSE Append(votes, [userId |-> userId, historyId |-> historyId,
                                                  vote |-> vote])
                /\ writing' = writing + 1
  /\ lastVote' = [lastVote EXCEPT ![userId, historyId] = IF vote = "" THEN "none" ELSE vote]
  /\ UNCHANGED <<now, _rpmTimestamps, _tpmEvents, _cooldownUntil, _lastAt, llmBusy,
                 haveClient, pc, req, wakeAt, waitStart, calls, result, issued,
                 lastThrottle, diag, event, userEvent, dbCall, invocations, planVars, file>>

\* a queued write runs: fs.writeFile(DB_FILE, JSON.stringify(state)), the state
\* being read when the write starts
WriteFile ==
  /\ writing > 0
  /\ writing' = writing - 1
  /\ file' = votes
  /\ UNCHANGED <<now, _rpmTimestamps, _tpmEvents, _cooldownUntil, _lastAt, llmBusy,
                 haveClient, pc, req, wakeAt, waitStart, calls, result, issued,
                 lastThrottle, diag, event, userEvent, dbCall, invocations, planVars,
                 votes, lastVote>>

\* getCounts(historyId)
getCounts(historyId) ==
  [up   |-> Cardinality({i \in 1..Len(votes) :
                           votes[i].historyId = historyId /\ votes[i].vote = "up"}),
   down |-> Cardinality({i \in 1..Len(votes) :
                           votes[i].historyId = historyId /\ votes[i].vote = "down"})]

NextVotes ==
  \/ \E userId \in UserIds, historyId \in HistoryIds, vote \in {"up", "down", "none", ""} :
        SetVote(userId, historyId, vote)
  \/ WriteFile

SpecVotes == Init /\ [][NextVotes]_vars

(* --------------------- PATCH /planner/:id/block ------------------------ *)
\* Request p marks block p of plan id done, on behalf of the plan's owner.
\* Every await of the handler and of db.js is a step: the database runs one
\* query at a time, and other requests run between two queries.
PlanOwner == "ana"

\* the handler up to its second await: listEvents (one findMany over the
\* caller's events), the 404 when the plan is not among them, the block marked
\* in the copy that was read, and removeEvent's findUnique sent off
PatchList(p, id) ==
  /\ patch[p].pc = "none"
  /\ IF id \in event /\ [eventId |-> id, userId |-> PlanOwner] \in userEvent
       THEN patch' = [patch EXCEPT ![p] = [pc |-> "findLink", id |-> id,
                                           found |-> Some(payload[id] \cup {p})]]
       ELSE patch' = [patch EXCEPT ![p] = [pc |-> "notFound", id |-> id, found |-> Null]]
  /\ UNCHANGED <<now, _rpmTimestamps, _tpmEvents, _cooldownUntil, _lastAt, llmBusy,
                 haveClient, pc, req, wakeAt, waitStart, calls, result, issued,
                 lastThrottle, diag, event, userEvent, dbCall, invocations, payload,
                 voteVars>>

\* removeEvent(id, userId), one query per step: findUnique (0 is returned, and
\* ignored by the handler, when there is no link or it is another user's),
\* userEvent.delete and event.delete, which throw when the row is gone; the
\* link goes with its event (ON DELETE CASCADE)
PatchRemove(p) ==
  /\ patch[p].pc \in {"findLink", "deleteLink", "deleteEvent"}
  /\ LET id    == patch[p].id
         links == {l \in userEvent : l.eventId = id}
         to(st) == [patch EXCEPT ![p].pc = st]
     IN  CASE patch[p].pc = "findLink" ->
                /\ patch' = IF links = {} \/ (\A l \in links : l.userId # PlanOwner)
                              THEN to("create") ELSE to("deleteLink")
                /\ UNCHANGED <<event, userEvent, payload>>
           [] patch[p].pc = "deleteLink" ->
                IF links = {}
                  THEN patch' = to("failed") /\ UNCHANGED <<event, userEvent, payload>>
                  ELSE /\ userEvent' = userEvent \ links
                       /\ patch' = to("deleteEvent")
                       /\ UNCHANGED <<event, payload>>
           [] patch[p].pc = "deleteEvent" ->
                IF id \notin event
                  THEN patch' = to("failed") /\ UNCHANGED <<event, userEvent, payload>>
                  ELSE /\ event' = event \ {id}
                       /\ userEvent' = userEvent \ links
                       /\ payload' = [payload EXCEPT ![id] = {}]
                       /\ patch' = to("create")
  /\ UNCHANGED <<now, _rpmTimestamps, _tpmEvents, _cooldownUntil, _lastAt, llmBusy,
                 haveClient, pc, req, wakeAt, waitStart, calls, result, issued,
                 lastThrottle, diag, dbCall, invocations, voteVars>>

\* addEvent(found), one query per step: event.create, which throws on an id
\* that is stored, and userEvent.upsert, which needs the event to be there;
\* then the handler answers { ok: true }.  A throw is answered with a 500.
PatchAdd(p) ==
  /\ patch[p].pc \in {"create", "upsert"}
  /\ LET id == patch[p].id
         to(st) == [patch EXCEPT ![p].pc = st]
     IN  CASE patch[p].pc = "create" ->
                IF id \in event
                  THEN patch' = to("failed") /\ UNCHANGED <<event, userEvent, payload>>
                  ELSE /\ event' = event \cup {id}
                       /\ payload' = [payload EXCEPT ![id] = Val(patch[p].found)]
                       /\ patch' = to("upsert")
                       /\ UNCHANGED userEvent
           [] patch[p].pc = "upsert" ->
                IF id \notin event
                  THEN patch' = to("failed") /\ UNCHANGED <<event, userEvent, payload>>
                  ELSE /\ userEvent' = {l \in userEvent : l.eventId # id}
                                          \cup {[eventId |-> id, userId |-> PlanOwner]}
                       /\ patch' = to("ok")
                       /\ UNCHANGED <<event, payload>>
  /\ UNCHANGED <<now, _rpmTimestamps, _tpmEvents, _cooldownUntil, _lastAt, llmBusy,
                 haveClient, pc, req, wakeAt, waitStart, calls, result, issued,
                 lastThrottle, diag, dbCall, invocations, voteVars>>

\* plans are stored (POST /planner) for the owner or for somebody else, and
\* the PATCH requests run side by side
NextPlan ==
  \/ \E id \in 1..MaxEvents, userId \in {Some(PlanOwner), Some("bia")} : AddEvent(id, userId)
  \/ \E p \in Patchers, id \in 1..MaxEvents : PatchList(p, id)
  \/ \E p \in Patchers : PatchRemove(p)
  \/ \E p \in Patchers : PatchAdd(p)

SpecPlan == Init /\ [][NextPlan]_vars

(* ======================================================================= *)
(*                               properties                                *)
(* ======================================================================= *)
\* entries of a window that are younger than 60 s at time t
RECURSIVE YoungTokens(_, _)
YoungTokens(w, t) ==
  IF Len(w) = 0 THEN 0
  ELSE (IF t - Head(w).ts < WINDOW THEN Head(w).tokens ELSE 0) + YoungTokens(Tail(w), t)

YoungCount(w, t) == Cardinality({k \in 1..Len(w) : t - w[k] < WINDOW})

IsSignal(v, tag) ==
  HasField(v, "_error") /\ Field(v, "_error") = JString(tag)

\* the provider is reached and answers request r with its final reply
Reaches(r) == r.kind \in Kinds /\ r.fails <= RETRIES /\ r.transient \in TransientErrors

GuardedInFlight(o) == req[o].guarded /\ pc[o] \notin {"idle", "waitFree", "done"}

(* C1: whenever tpmGate records a call's token cost, the token counts of the
   window entries younger than 60 s, the new one included, sum to at most the
   TPM ceiling; a call that does not fit is not recorded. *)
C1_TpmWithinCeiling ==
  [][\A o \in Ops :
       /\ (pc[o] = "tpmGate" /\ pc'[o] = "rpmGate")
            => YoungTokens(_tpmEvents', now') <= OPENAI_TPM_LIMIT
       /\ (pc[o] = "tpmGate" /\ pc'[o] = "tpmGate" /\ wakeAt'[o] # wakeAt[o])
            => /\ YoungTokens(_tpmEvents, now) + TokensNeeded(req[o]) > OPENAI_TPM_LIMIT
               /\ YoungTokens(_tpmEvents', now') = YoungTokens(_tpmEvents, now)]_vars

\* one call has just been recorded while another is held back by the window
C1_Witness ==
  \E o, p \in Ops :
    /\ pc[o] = "tpmGate" /\ wakeAt[o] > now
    /\ pc[p] = "rpmGate"
    /\ YoungTokens(_tpmEvents, now) + TokensNeeded(req[o]) > OPENAI_TPM_LIMIT

(* C2: whenever rpmGate records an admission, the admissions of the trailing
   60 s, the new one included, number at most the RPM ceiling. *)
C2_RpmWithinCeiling ==
  [][\A o \in Ops :
       (pc[o] = "rpmGate" /\ pc'[o] = "softThrottle")
         => YoungCount(_rpmTimestamps', now') <= OPENAI_RPM_LIMIT]_vars

\* the window is full and a caller is waiting for a slot, not for a cooldown
C2_Witness ==
  \E o \in Ops :
    /\ pc[o] = "rpmGate" /\ wakeAt[o] > now
    /\ YoungCount(_rpmTimestamps, now) = OPENAI_RPM_LIMIT
    /\ ~NumPositive(getCooldownMs(_cooldownUntil, now))

(* C3: after a throttling classification at time t with hint N seconds that
   no later throttle has overwritten, rpmGate admits nobody before t + N s. *)
C3_NoAdmissionBeforeRetryAfter ==
  [][\A o \in Ops :
       (pc[o] = "rpmGate" /\ pc'[o] = "softThrottle"
          /\ lastThrottle.armed /\ ~lastThrottle.sec.nan)
         => now >= lastThrottle.at + lastThrottle.sec.v * 1000]_vars

\* a caller was admitted once the cooldown of an earlier throttle had passed
C3_Witness ==
  /\ lastThrottle.armed
  /\ lastThrottle.sec.v > 0
  /\ \E k \in 1..Len(_rpmTimestamps) :
       _rpmTimestamps[k] >= lastThrottle.at + lastThrottle.sec.v * 1000

(* C4: an operation that returns a rate_limit signal tags it rate_limit with
   status 429, and the retryAfterSec it carries is the hint the cooldown was
   armed with in the same step: deadline = now + retryAfterSec * 1000. *)
C4_SignalCarriesTheHint ==
  [][\A o \in Ops :
       (pc[o] = "inFlight" /\ pc'[o] = "done" /\ IsSignal(result'[o].value, "rate_limit"))
         => LET v   == result'[o].value
                sec == Field(v, "retryAfterSec")
            IN  /\ result'[o].how = "return"
                /\ Field(v, "status") = JNumber(429)
                /\ _cooldownUntil' = IF sec = JNaN THEN NaN ELSE Num(now + sec.n * 1000)]_vars

\* a throttle whose header says 15 s has been turned into a signal
C4_Witness ==
  \E o \in Ops :
    /\ pc[o] = "done"
    /\ IsSignal(result[o].value, "rate_limit")
    /\ Field(result[o].value, "retryAfterSec") = JNumber(15)
    /\ _cooldownUntil = Num(now + 15000)

(* C5: a 429 that is a quota exhaustion yields a signal tagged
   insufficient_quota without a retryAfterSec field, and leaves the cooldown
   deadline as it was. *)
C5_QuotaArmsNothing ==
  [][\A o \in Ops :
       (pc[o] = "inFlight" /\ pc'[o] = "done"
          /\ ~Provider(req[o], calls[o]).ok
          /\ Provider(req[o], calls[o]).err \in QuotaErrors)
         => /\ result'[o].how = "return"
            /\ IsSignal(result'[o].value, "insufficient_quota")
            /\ ~HasField(result'[o].value, "retryAfterSec")
            /\ _cooldownUntil' = _cooldownUntil]_vars

\* a quota exhaustion detected from the message alone has been returned
C5_Witness ==
  \E o \in Ops :
    /\ pc[o] = "done"
    /\ req[o].final = Throws(E429QuotaMsg)
    /\ IsSignal(result[o].value, "insufficient_quota")
    /\ ~NumPositive(getCooldownMs(_cooldownUntil, now))

(* C6: when the provider fails k <= 2 times with a transient error and then
   answers, the operation returns the value of that answer and the provider
   has been invoked exactly k + 1 times. *)
C6_TransientFailuresAbsorbed ==
  \A o \in Ops :
    (pc[o] = "done" /\ haveClient /\ Reaches(req[o]) /\ req[o].final.ok)
      => /\ calls[o] = req[o].fails + 1
         /\ result[o] = Returned(ResponseValue[req[o].kind, req[o].final.content])
         /\ (req[o].kind = "json" /\ req[o].final.content = Some(TextStrictJson))
              => result[o].value = ObjectA1B23

\* 503, 503, then a JSON object: three invocations and the object
C6_Witness ==
  \E o \in Ops :
    /\ pc[o] = "done"
    /\ req[o].kind = "json" /\ req[o].fails = 2 /\ req[o].transient = E503
    /\ calls[o] = 3
    /\ result[o].value = ObjectA1B23

(* C7: once an invocation of the provider has failed with status 429 the
   operation invokes the provider no more; a 429 on the first attempt is
   returned as a signal after that single invocation. *)
C7_No429Retry ==
  \A o \in Ops :
    (req[o].kind \in Kinds /\ ~req[o].final.ok /\ req[o].final.err.status = 429)
      => /\ calls[o] <= req[o].fails + 1
         /\ (calls[o] = req[o].fails + 1) => pc[o] \in {"inFlight", "done"}
         /\ (pc[o] = "done" /\ haveClient /\ req[o].fails = 0)
              => /\ calls[o] = 1
                 /\ HasField(result[o].value, "_error")

\* a 429 after one transient failure: two invocations, then the signal
C7_Witness ==
  \E o \in Ops :
    /\ pc[o] = "done"
    /\ req[o].fails = 1 /\ req[o].final = Throws(E429Plain)
    /\ calls[o] = 2
    /\ IsSignal(result[o].value, "rate_limit")

(* C8: for the reply "prefix text {"a":1,"b":[2,3]} " (the object followed by
   a space) askLLMJson returns the object {a:1, b:[2,3]}. *)
C8_SalvageExample ==
  \A o \in Ops :
    (pc[o] = "done" /\ haveClient /\ Reaches(req[o]) /\ req[o].kind = "json"
       /\ req[o].final = Reply(Some(TextSalvageExample)))
      => result[o].value = ObjectA1B23

(* C9: withLLMGate clears the busy flag on every exit of the guarded call,
   return or throw; so the flag is false whenever no guarded call is in
   flight, and an acquire made then goes through without waiting. *)
C9_LatchAlwaysReleased ==
  /\ []((\A o \in Ops : ~GuardedInFlight(o)) => ~llmBusy)
  /\ [][\A o \in Ops :
          /\ (GuardedInFlight(o) /\ pc'[o] = "done") => ~llmBusy'
          /\ (pc[o] = "waitFree" /\ (\A p \in Ops : ~GuardedInFlight(p))
                /\ <<pc[o], wakeAt[o]>> # <<pc'[o], wakeAt'[o]>>)
               => pc'[o] # "waitFree"]_vars

\* a guarded call has thrown, the latch is free again and a waiter is there to take it
C9_Witness ==
  \E o, p \in Ops :
    /\ pc[o] = "done" /\ result[o].how = "throw"
    /\ o # p /\ pc[p] = "waitFree" /\ wakeAt[p] > 0
    /\ ~llmBusy

(* C10: askLLM, askLLMJson and askLLMVision end, whatever the provider does,
   by returning a string, a parsed object, null, a rate_limit signal or an
   insufficient_quota signal; they throw nothing to their caller. *)
C10_NeverThrows ==
  \A o \in Ops :
    (pc[o] = "done" /\ req[o].kind \in Kinds)
      => /\ result[o].how = "return"
         /\ LET v == result[o].value
            IN  \/ v.t \in {"null", "string"}
                \/ IsSignal(v, "rate_limit") \/ IsSignal(v, "insufficient_quota")
                \/ (v.t = "object" /\ ~HasField(v, "_error") /\ req[o].kind = "json")

\* a failure that is no 429 and cannot be retried has come back as null
C10_Witness ==
  \E o \in Ops :
    /\ pc[o] = "done"
    /\ req[o].final = Throws(E400)
    /\ req[o].kind \in Kinds
    /\ calls[o] >= 1
    /\ result[o] = Returned(JNull)

(* C11: with the API credential (or the client library) missing, an operation
   ends by throwing a setup error to its caller instead of returning a value. *)
C11_SetupErrorThrown ==
  \A o \in Ops :
    (pc[o] = "done" /\ ~haveClient /\ req[o].kind \in Kinds)
      => result[o].how = "throw"

\* every invocation of the provider made for request r fails with a transient error
AllTransient(r) ==
  /\ r.kind \in Kinds
  /\ r.transient \in TransientErrors
  /\ r.fails > RETRIES \/ (~r.final.ok /\ r.final.err \in TransientErrors)

(* C12: when every invocation of the provider fails with a transient error,
   the operation invokes it at most 3 times (one attempt and 2 retries), then
   returns null, and no step of it changes the cooldown deadline. *)
C12_ExhaustedRetriesGiveNull ==
  /\ [](\A o \in Ops :
          AllTransient(req[o])
            => /\ calls[o] <= RETRIES + 1
               /\ (pc[o] = "done" /\ haveClient)
                    => /\ calls[o] = RETRIES + 1
                       /\ result[o] = Returned(JNull))
  /\ [][\A o \in Ops :
          (AllTransient(req[o]) /\ pc[o] \in {"invoke", "inFlight"})
            => _cooldownUntil' = _cooldownUntil]_vars

\* three 503 in a row have been answered with null
C12_Witness ==
  \E o \in Ops :
    /\ pc[o] = "done"
    /\ req[o].kind \in Kinds /\ req[o].fails = RETRIES + 1 /\ req[o].transient = E503
    /\ calls[o] = RETRIES + 1
    /\ result[o] = Returned(JNull)
    /\ _cooldownUntil = Num(0)

(* C13: each throttling classification at time t with hint N sets the cooldown
   deadline to exactly t + N * 1000 ms, whatever the deadline was before: the
   deadline is always the one of the latest classification, also when that
   moves an armed deadline to an earlier instant. *)
C13_DeadlineOverwritten ==
  /\ [](lastThrottle.armed
          => _cooldownUntil = IF lastThrottle.sec.nan THEN NaN
                              ELSE Num(lastThrottle.at + lastThrottle.sec.v * 1000))
  /\ [][\A o \in Ops :
          (pc[o] = "inFlight" /\ pc'[o] = "done" /\ IsSignal(result'[o].value, "rate_limit"))
            => /\ lastThrottle'.armed
               /\ lastThrottle'.at = now
               /\ JNum(lastThrottle'.sec) = Field(result'[o].value, "retryAfterSec")
               /\ lastThrottle'.prev = _cooldownUntil]_vars

\* a 15 s hint has replaced a deadline that was still ahead and later
C13_Witness ==
  /\ lastThrottle.armed
  /\ lastThrottle.sec = Num(15)
  /\ ~lastThrottle.prev.nan
  /\ lastThrottle.prev.v > now
  /\ lastThrottle.prev.v > _cooldownUntil.v

\* the step in which handler o classifies a 429 as throttling
ClassifiesThrottle(o) ==
  pc[o] = "inFlight" /\ pc'[o] = "done" /\ IsSignal(result'[o].value, "rate_limit")

(* C14: the cooldown deadline starts in the past and changes only in a step
   in which an operation classifies a 429 as rate-limit throttling; every
   other step (answers, null outcomes, quota outcomes, the gates, the
   smoothing delay, the diagnostic reads) leaves it unchanged. *)
C14_OnlyThrottleMovesDeadline ==
  /\ ~NumPositive(getCooldownMs(_cooldownUntil, now))
  /\ [][_cooldownUntil' # _cooldownUntil => \E o \in Ops : ClassifiesThrottle(o)]_vars

\* after a throttle, an answered call has left the deadline where it was
C14_Witness ==
  \E o \in Ops :
    /\ pc[o] = "done"
    /\ req[o].kind = "json" /\ req[o].final.ok
    /\ result[o].value = ObjectA1B23
    /\ lastThrottle.armed /\ ~lastThrottle.sec.nan
    /\ _cooldownUntil = Num(lastThrottle.at + lastThrottle.sec.v * 1000)

(* C15: while the current instant is before the cooldown deadline no gate
   admits: no entry is added to the token window nor to the request window. *)
C15_NoAdmissionDuringCooldown ==
  [][NumPositive(getCooldownMs(_cooldownUntil, now))
       => \A o \in Ops :
            /\ ~(pc[o] = "tpmGate" /\ pc'[o] = "rpmGate")
            /\ ~(pc[o] = "rpmGate" /\ pc'[o] = "softThrottle")]_vars

\* handler o is making a model call: it is between the token gate and the answer
InModelCall(o) ==
  /\ req[o].kind \in Kinds
  /\ pc[o] \in {"tpmGate", "rpmGate", "softThrottle", "softWake", "invoke", "inFlight"}

(* C16: every model call of a route handler is made inside withLLMGate: a call
   is at the token estimator and the admission gate only after it has passed
   the latch. *)
C16_EveryModelCallGuarded ==
  \A o \in Ops : InModelCall(o) => req[o].guarded

(* C17: the wait of an acquire ends at most 8000 + 120 ms after it began,
   also when the holder never clears the flag; the acquire always ends by
   setting the flag and running the guarded function. *)
C17_AcquireWithinCeiling ==
  /\ [](\A o \in Ops :
          pc[o] = "waitFree" => now - waitStart[o] <= WAIT_CEILING_MS + WAIT_POLL_MS)
  /\ [][\A o \in Ops :
          /\ (pc[o] = "waitFree" /\ pc'[o] # "waitFree")
               => /\ now - waitStart[o] <= WAIT_CEILING_MS + WAIT_POLL_MS
                  /\ pc'[o] = "acquire"
          /\ (pc[o] = "acquire" /\ pc'[o] # "acquire")
               => llmBusy' /\ pc'[o] \in {"tpmGate", "plainFn"}]_vars

\* two guarded calls are under way at once: the second one waited out the ceiling
C17_Witness ==
  \E o, p \in Ops :
    /\ o # p
    /\ GuardedInFlight(o) /\ GuardedInFlight(p)
    /\ now >= T0 + WAIT_CEILING_MS
    /\ now <= T0 + WAIT_CEILING_MS + WAIT_POLL_MS

\* the step in which a diagnostic route reads the state of the gates
DiagnosticRead == diag = NoDiag /\ diag' # NoDiag

(* C18: a diagnostic read (getRpmState, getTpmState, getCooldownMs) leaves
   the cooldown deadline and every window entry younger than 60 s as they
   were, and nothing else of the gates changes: what the gates compute for
   the next caller (pruned windows, tokens in use, cooldown) is the same as
   without the read. *)
C18_DiagnosticsReadOnly ==
  [][DiagnosticRead
       => /\ _cooldownUntil' = _cooldownUntil
          /\ PruneRpm(_rpmTimestamps', now) = PruneRpm(_rpmTimestamps, now)
          /\ _tpmPrune(_tpmEvents', now) = _tpmPrune(_tpmEvents, now)
          /\ YoungCount(_rpmTimestamps', now) = YoungCount(_rpmTimestamps, now)
          /\ YoungTokens(_tpmEvents', now) = YoungTokens(_tpmEvents, now)
          /\ UNCHANGED <<now, _lastAt, llmBusy, pc, wakeAt, waitStart, calls, result>>]_vars

\* the limits were read while a cooldown was running and both windows were in use
C18_Witness ==
  /\ diag.route = "limits"
  /\ diag.rpm.used >= 1
  /\ diag.rpm.used = Len(_rpmTimestamps)
  /\ diag.tpm.used > 0
  /\ NumPositive(diag.cooldownMs)
  /\ _cooldownUntil.v > now

(* C19: an operation goes through its stages in one order: token cost and
   tpmGate (which records one entry with that cost), rpmGate (which records
   one entry), softThrottle, and only then the provider, invoked from
   withRetry; a 429 is classified only on the failure withRetry gave up on. *)
C19_StagesInOrder ==
  [][\A o \in Ops :
       /\ (pc'[o] = "tpmGate" /\ pc[o] # "tpmGate") => pc[o] \in {"idle", "acquire"}
       /\ (pc'[o] = "rpmGate" /\ pc[o] # "rpmGate")
            => /\ pc[o] = "tpmGate"
               /\ _tpmEvents' = Append(_tpmPrune(_tpmEvents, now),
                                       [ts |-> now, tokens |-> TokensNeeded(req[o])])
       /\ (pc'[o] = "softThrottle" /\ pc[o] # "softThrottle")
            => /\ pc[o] = "rpmGate"
               /\ _rpmTimestamps' = Append(PruneRpm(_rpmTimestamps, now), now)
       /\ (pc'[o] = "softWake" /\ pc[o] # "softWake") => pc[o] = "softThrottle"
       /\ (pc'[o] = "invoke" /\ pc[o] # "invoke")
            => \/ pc[o] \in {"softThrottle", "softWake"} /\ _lastAt' = now /\ calls[o] = 0
               \/ pc[o] = "inFlight"
       /\ calls'[o] > calls[o]
            => pc[o] = "invoke" /\ pc'[o] = "inFlight" /\ calls'[o] = calls[o] + 1
       /\ (pc'[o] = "done" /\ HasField(result'[o].value, "_error"))
            => /\ pc[o] = "inFlight"
               /\ ~Provider(req[o], calls[o]).ok
               /\ Provider(req[o], calls[o]).err.status = 429
               /\ GiveUp(Provider(req[o], calls[o]).err, calls[o] - 1, RETRIES)]_vars

\* the provider is being invoked for a call recorded in both windows and let
\* through by the smoothing delay at this very instant, after a retry
C19_Witness ==
  \E o \in Ops :
    /\ pc[o] = "inFlight" /\ calls[o] = 2
    /\ \E k \in 1..Len(_tpmEvents) : _tpmEvents[k].tokens = TokensNeeded(req[o])
    /\ Len(_rpmTimestamps) >= 1
    /\ _lastAt >= T0

(* C20: no two operations leave softThrottle less than MIN_GAP_MS apart: when
   one leaves, the previous one left at least 800 ms earlier. *)
C20_SmoothingGapBetweenCalls ==
  [][\A o \in Ops :
       (pc[o] \in {"softThrottle", "softWake"} /\ pc'[o] \notin {"softThrottle", "softWake"})
         => now - _lastAt >= MIN_GAP_MS]_vars

(* C21: rpmGate reads the cooldown deadline anew on every iteration: a caller
   is admitted only at an instant at which the deadline in force, moved later
   by another operation's throttle or not, has passed. *)
C21_AdmittedAfterCurrentDeadline ==
  [][\A o \in Ops :
       (pc[o] = "rpmGate" /\ pc'[o] = "softThrottle")
         => ~NumPositive(getCooldownMs(_cooldownUntil, now))]_vars

\* another operation's throttle moved a deadline that was ahead to a later
\* instant, and a caller that looked at the deadline after the move is held
C21_Witness ==
  \E o \in Ops :
    /\ pc[o] = "rpmGate" /\ wakeAt[o] > now
    /\ lastThrottle.armed /\ ~lastThrottle.prev.nan
    /\ lastThrottle.prev.v > lastThrottle.at
    /\ _cooldownUntil.v > lastThrottle.prev.v
    /\ now > lastThrottle.at /\ wakeAt[o] - 1000 >= lastThrottle.at

(* C23: a caller leaves the wait of waitFree while another guarded call is
   under way only when it has waited the full 8000 ms ceiling; whenever every
   acquire that found the latch free did so before its ceiling, at most one
   guarded call is in flight. *)
C23_ConcurrentOnlyAfterCeiling ==
  /\ [][\A o \in Ops :
          (pc[o] = "waitFree" /\ pc'[o] = "acquire"
             /\ \E p \in Ops : p # o /\ GuardedInFlight(p))
            => now - waitStart[o] >= WAIT_CEILING_MS]_vars
  /\ [](now - T0 < WAIT_CEILING_MS
          => \A o, p \in Ops : (GuardedInFlight(o) /\ GuardedInFlight(p)) => o = p)

(* C24: for a 429 classified as throttling, each of the three operations
   returns as retryAfterSec the number in the retry-after header of the
   response when the header is present, otherwise the N of a 'try again in
   Ns' message, otherwise 30. *)
C24_SamePrecedence ==
  \A o \in Ops :
    (pc[o] = "done" /\ haveClient /\ req[o].kind \in Kinds /\ req[o].fails = 0
       /\ ~req[o].final.ok /\ IsSignal(result[o].value, "rate_limit"))
      => LET e    == req[o].final.err
             hint == IF Truthy(e.respRetryAfter) THEN ToNumber(Val(e.respRetryAfter))
                     ELSE IF ~IsNull(TryAgainSeconds(e.message))
                            THEN Val(TryAgainSeconds(e.message))
                     ELSE Num(DEFAULT_RETRY_AFTER)
         IN  Field(result[o].value, "retryAfterSec") = JNum(hint)

(* C25: a 429 is answered with the insufficient_quota signal exactly when its
   code or its type is insufficient_quota or its lower-cased message contains
   'insufficient quota', 'exceeded your current quota' or 'billing'; every
   other 429, the one with no code, type or message included, is answered with
   the rate_limit signal. *)
C25_QuotaExactly ==
  \A o \in Ops :
    (pc[o] = "done" /\ haveClient /\ req[o].kind \in Kinds /\ req[o].fails = 0
       /\ ~req[o].final.ok /\ req[o].final.err.status = 429)
      => LET e     == req[o].final.err
             low   == ToLowerCase(e.message)
             quota == \/ e.code = "insufficient_quota"
                      \/ e.type = "insufficient_quota"
                      \/ Includes(low, "insufficient quota")
                      \/ Includes(low, "exceeded your current quota")
                      \/ Includes(low, "billing")
         IN  /\ quota => IsSignal(result[o].value, "insufficient_quota")
             /\ ~quota => IsSignal(result[o].value, "rate_limit")

\* the 429 without code, type or message came back as a rate_limit signal, or
\* one whose type alone says so came back as a quota signal
C25_Witness ==
  \E o \in Ops :
    /\ pc[o] = "done"
    /\ \/ /\ req[o].final = Throws(Err(429, "", "", "", Null, Null))
          /\ IsSignal(result[o].value, "rate_limit")
       \/ /\ req[o].final = Throws(Err(429, "", "insufficient_quota", "", Null, Null))
          /\ IsSignal(result[o].value, "insufficient_quota")

(* C26: a failure of the provider is followed by another invocation (while
   attempts remain) exactly when its status is 408, 409 or in the 5xx family,
   or its code is ETIMEDOUT or ECONNRESET; any other failure ends the
   operation after a single invocation. *)
C26_RetriesExactlyTransient ==
  \A o \in Ops :
    (pc[o] = "done" /\ haveClient /\ req[o].kind \in Kinds /\ req[o].fails = 0
       /\ ~req[o].final.ok)
      => LET e         == req[o].final.err
             transient == \/ e.status \in {408, 409}
                          \/ (e.status >= 500 /\ e.status <= 599)
                          \/ e.code \in {"ETIMEDOUT", "ECONNRESET"}
         IN  calls[o] = IF transient THEN RETRIES + 1 ELSE 1

(* C27: the cost that askLLM and askLLMJson take from buildTokenCost and hand
   to tpmGate is the non-negative integer ceil(len(system)/4) +
   ceil(len(user)/4) + max(0, max_tokens), with 0 for an empty or absent text
   and for a negative max_tokens; computing it changes nothing: the step
   records that cost and leaves the rest of the gating state as it was. *)
C27_TokenCost ==
  [][\A o \in Ops :
       (pc[o] = "tpmGate" /\ pc'[o] = "rpmGate" /\ req[o].kind \in {"chat", "json"})
         => LET Ceil4(n) == CHOOSE q \in 0..n : 4 * q >= n /\ 4 * q < n + 4
                mt       == MaxTokensOf(req[o])
                cost     == _tpmEvents'[Len(_tpmEvents')].tokens
            IN  /\ cost \in Nat
                /\ cost = Ceil4(req[o].systemLen) + Ceil4(req[o].userLen)
                            + (IF mt < 0 THEN 0 ELSE mt)
                /\ UNCHANGED <<_rpmTimestamps, _cooldownUntil, _lastAt, llmBusy>>]_vars

\* a call with a negative max_tokens and texts of 1 and 4 characters was
\* admitted at a cost of 2 tokens
C27_Witness ==
  \E o \in Ops :
    /\ pc[o] = "rpmGate" /\ req[o].kind = "json"
    /\ req[o].systemLen = 1 /\ req[o].userLen = 4 /\ req[o].max_tokens = Some(-3)
    /\ Len(_tpmEvents) > 0 /\ _tpmEvents[Len(_tpmEvents)].tokens = 2

(* C28: the cost the vision operation hands to tpmGate is the text estimate of
   its system and user text plus max(0, max_tokens) plus 1000, whether the
   call carries no image, one or several. *)
C28_VisionSurchargePerCall ==
  [][\A o \in Ops :
       (pc[o] = "tpmGate" /\ pc'[o] = "rpmGate" /\ req[o].kind = "vision")
         => LET Ceil4(n) == CHOOSE q \in 0..n : 4 * q >= n /\ 4 * q < n + 4
                mt       == MaxTokensOf(req[o])
            IN  _tpmEvents'[Len(_tpmEvents')].tokens =
                  Ceil4(req[o].systemLen) + Ceil4(req[o].userLen)
                    + (IF mt < 0 THEN 0 ELSE mt) + 1000]_vars

\* a vision call with two images was admitted at 1000 tokens over its text
\* and output estimate
C28_Witness ==
  \E o \in Ops :
    /\ pc[o] = "rpmGate" /\ req[o].kind = "vision" /\ req[o].images = 2
    /\ req[o].systemLen = 3 /\ req[o].userLen = 2 /\ req[o].max_tokens = Some(7)
    /\ Len(_tpmEvents) > 0 /\ _tpmEvents[Len(_tpmEvents)].tokens = 1009

(* C29: every read of the rate state prunes first: the count returned by
   getRpmState, the sum returned by getTpmState and the sum tpmGate decides
   on cover exactly the entries younger than 60 s at the instant of the read,
   and the windows hold no older entry once read. *)
C29_ReadsCoverYoungEntries ==
  [][/\ DiagnosticRead
          => /\ diag'.rpm.used = YoungCount(_rpmTimestamps, now)
             /\ \A k \in 1..Len(_rpmTimestamps') : now - _rpmTimestamps'[k] < WINDOW
             /\ diag'.route = "limits"
                  => /\ diag'.tpm.used = YoungTokens(_tpmEvents, now)
                     /\ \A k \in 1..Len(_tpmEvents') : now - _tpmEvents'[k].ts < WINDOW
     /\ \A o \in Ops :
          (pc[o] = "tpmGate" /\ (pc'[o] = "rpmGate" \/ wakeAt'[o] # wakeAt[o]))
            => /\ (pc'[o] = "rpmGate")
                    = (YoungTokens(_tpmEvents, now) + TokensNeeded(req[o]) <= OPENAI_TPM_LIMIT)
               /\ \A k \in 1..Len(_tpmEvents') : now - _tpmEvents'[k].ts < WINDOW]_vars

\* GET /diag/limits read the windows 60 s after a call was admitted: the
\* entries of that call, of age exactly 60 s, are not counted
C29_Witness ==
  /\ diag.route = "limits"
  /\ _lastAt = T0 /\ now = T0 + WINDOW
  /\ diag.rpm.used = 0 /\ diag.tpm.used = 0

(* C30: a call removeEvent(id, owner) deletes the record with that id only
   when the owner stored with it equals the owner argument, and then returns
   1; for any other argument, an empty or absent one included, it returns 0
   and leaves the store as it was. An empty or absent argument is read as the
   owner 'anon', the owner addEvent stores for it. *)
C30_DeleteByIdAndOwner ==
  [][dbCall' # dbCall
       => LET c     == dbCall'
              owner == IF Truthy(c.userId) THEN Val(c.userId) ELSE "anon"
              owned == \E l \in userEvent : l.eventId = c.id /\ l.userId = owner
          IN  IF owned
                THEN c.ret = 1 /\ c.id \notin event'
                ELSE c.ret = 0 /\ event' = event /\ userEvent' = userEvent]_vars

(* C22: the gates have no failure outcome: an operation leaves tpmGate only
   for rpmGate and rpmGate only for the smoothing delay, with nothing thrown
   or returned; and when the clock goes on, the operations are finitely many,
   the throttling events are finitely many and every cost is within the TPM
   ceiling, every operation that reaches a gate passes both in the end. *)
C22_GatesEventuallyPassed ==
  /\ [][\A o \in Ops :
          /\ pc[o] = "tpmGate" => pc'[o] \in {"tpmGate", "rpmGate"}
          /\ pc[o] = "rpmGate" => pc'[o] \in {"rpmGate", "softThrottle"}
          /\ pc[o] \in {"tpmGate", "rpmGate"} => result'[o] = result[o]]_vars
  /\ \A o \in Ops :
       (pc[o] \in {"tpmGate", "rpmGate"}) ~> (pc[o] \notin {"idle", "waitFree", "acquire", "tpmGate", "rpmGate"})

\* an operation is past both gates after the 60 s window and a 45 s cooldown
\* armed at the first tick kept it waiting
C22_Witness ==
  \E o \in Ops :
    /\ pc[o] \in {"softThrottle", "invoke", "inFlight"}
    /\ lastThrottle.armed /\ lastThrottle.at = T0 + TickMs
    /\ Len(_rpmTimestamps) > 0
    /\ _rpmTimestamps[Len(_rpmTimestamps)] >= T0 + WINDOW + TickMs

(* ------------------------------------------------------------------------ *)
\* the operation of handler o costs more than the token ceiling
OverCeiling(o) ==
  /\ req[o].kind \in Kinds
  /\ TokensNeeded(req[o]) > OPENAI_TPM_LIMIT

\* C31: an operation whose estimated cost exceeds the token ceiling stays in
\* tpmGate: every iteration of the loop, with an empty window too, ends in a
\* sleep of at most 1500 ms; the operation records no request timestamp, never
\* invokes the provider and never produces a value or an error
C31_OverCeilingSleepsForever ==
  [][\A o \in Ops :
       (OverCeiling(o) /\ pc[o] = "tpmGate") =>
          /\ pc'[o] = "tpmGate"
          /\ calls'[o] = 0
          /\ result'[o] = NoResult
          /\ Len(_rpmTimestamps') <= Len(_rpmTimestamps)
          /\ _tpmEvents' = <<>> \/ _tpmEvents' = _tpmEvents
          /\ (wakeAt'[o] # wakeAt[o] =>
                /\ wakeAt'[o] > now
                /\ wakeAt'[o] <= now + 1500
                /\ (_tpmEvents' = <<>> => wakeAt'[o] = now + 250))]_vars

C31_Witness ==
  \E o \in Ops :
    /\ OverCeiling(o)
    /\ pc[o] = "tpmGate"
    /\ _tpmEvents = <<>>
    /\ _rpmTimestamps = <<>>
    /\ now > T0
    /\ wakeAt[o] = now + 250

(* ------------------------------------------------------------------------ *)
\* C32: at the instant an operation first invokes the provider, the estimated
\* costs of the operations first invoked within the trailing 60 s, this one
\* included, sum to at most the token ceiling
C32_DispatchedTokensWithinCeiling ==
  SumTokens(invocations) <= OPENAI_TPM_LIMIT

(* ------------------------------------------------------------------------ *)
\* C33: the provider is invoked at most OPENAI_RPM_LIMIT times, retries
\* included, within any trailing 60 seconds
C33_InvocationsWithinCeiling ==
  Len(invocations) <= OPENAI_RPM_LIMIT

(* ------------------------------------------------------------------------ *)
\* the guarded function of handler o is executing: withLLMGate has set the
\* flag for it and its finally block has not run yet
GuardedExecuting(o) ==
  /\ req[o].guarded
  /\ pc[o] \in {"plainFn", "tpmGate", "rpmGate", "softThrottle", "softWake", "invoke", "inFlight"}

\* C34: the busy flag reflects occupancy: llmBusy is true whenever at least
\* one guarded function is executing, also after a waiter has outlasted the
\* ceiling, started beside the holder, and the holder has finished
C34_BusyWhileExecuting ==
  (\E o \in Ops : GuardedExecuting(o)) => llmBusy

(* ------------------------------------------------------------------------ *)
\* the entries of w sit in v, side by side and in the same order
KeptIn(w, v) ==
  /\ Len(w) <= Len(v)
  /\ \E i \in 0..(Len(v) - Len(w)) : SubSeq(v, i + 1, i + Len(w)) = w

\* the operation of handler o has ended in a failure value
EndedInFailure(o) ==
  /\ pc[o] = "done"
  /\ req[o].kind \in Kinds
  /\ result[o].how = "return"
  /\ \/ result[o].value = JNull
     \/ IsSignal(result[o].value, "rate_limit")
     \/ IsSignal(result[o].value, "insufficient_quota")

\* C35: window entries leave only by age: in every step the request
\* timestamps and the token reservations younger than 60 s stay in their
\* window, and the step in which an operation ends in failure (null,
\* rate_limit, insufficient_quota, no client) changes neither window
C35_NoRollback ==
  [][/\ KeptIn(SelectSeq(_rpmTimestamps, LAMBDA ts : now - ts < WINDOW), _rpmTimestamps')
     /\ KeptIn(SelectSeq(_tpmEvents, LAMBDA e : now - e.ts < WINDOW), _tpmEvents')
     /\ \A o \in Ops :
          (~EndedInFailure(o) /\ EndedInFailure(o)')
            => /\ _rpmTimestamps' = _rpmTimestamps
               /\ _tpmEvents' = _tpmEvents]_vars

\* the credential is missing: the one operation issued has ended in null and
\* has been answered, and the entries it recorded on its way are in both
\* windows a tick later
C35_Witness ==
  /\ ~haveClient
  /\ issued = 1
  /\ \A o \in Ops : pc[o] = "idle"
  /\ now = T0 + TickMs
  /\ _rpmTimestamps = <<T0>>
  /\ Len(_tpmEvents) = 1 /\ _tpmEvents[1].ts = T0

(* ------------------------------------------------------------------------ *)
\* C36: for every throttling 429, whatever its retry-after header holds, the
\* retryAfterSec of the rate_limit signal returned is a finite number >= 0 and
\* the cooldown deadline written with it is a number
C36_HintAlwaysUsable ==
  \A o \in Ops :
    (pc[o] = "done" /\ IsSignal(result[o].value, "rate_limit"))
      => /\ Field(result[o].value, "retryAfterSec").t = "number"
         /\ Field(result[o].value, "retryAfterSec").n >= 0
         /\ ~_cooldownUntil.nan
         /\ ~getCooldownMs(_cooldownUntil, now).nan

(* ------------------------------------------------------------------------ *)
\* C39: both windows are in time order, oldest entry first, in every
\* reachable state; so the loops that shift the head while it is expired
\* leave no entry of age 60 s or more behind
C39_WindowsInTimeOrder ==
  /\ \A i, j \in 1..Len(_rpmTimestamps) : i < j => _rpmTimestamps[i] <= _rpmTimestamps[j]
  /\ \A i, j \in 1..Len(_tpmEvents) : i < j => _tpmEvents[i].ts <= _tpmEvents[j].ts
  /\ LET w == PruneRpm(_rpmTimestamps, now)
     IN  \A k \in 1..Len(w) : now - w[k] < WINDOW
  /\ LET w == _tpmPrune(_tpmEvents, now)
     IN  \A k \in 1..Len(w) : now - w[k].ts < WINDOW

\* each window holds an expired entry at its head and a younger one behind it
C39_Witness ==
  /\ Len(_rpmTimestamps) >= 2
  /\ now - _rpmTimestamps[1] >= WINDOW
  /\ now - _rpmTimestamps[2] < WINDOW
  /\ Len(_tpmEvents) >= 2
  /\ now - _tpmEvents[1].ts >= WINDOW
  /\ now - _tpmEvents[2].ts < WINDOW

(* ------------------------------------------------------------------------ *)
\* C37: PATCH requests that mark different blocks of one plan all take
\* effect: once every one of them has been answered { ok: true }, the plan is
\* stored and has all their blocks marked done
C37_ConcurrentPatchesKept ==
  \A id \in 1..MaxEvents :
    (\A p \in Patchers : patch[p].pc = "ok" /\ patch[p].id = id)
      => /\ id \in event
         /\ payload[id] = Patchers

(* ------------------------------------------------------------------------ *)
\* the records the store holds for user u and history item h
VoteRecords(u, h) ==
  {i \in 1..Len(votes) : votes[i].userId = u /\ votes[i].historyId = h}

\* C38: after any sequence of setVote calls the store holds at most one
\* record per (userId, historyId); a pair whose latest vote is 'up' or 'down'
\* has a record with that vote, a pair whose latest vote is 'none' (or that
\* never voted) has none, whatever the other users did; and getCounts of a
\* history item counts the users whose latest vote on it is 'up' and 'down'
C38_VotesPerUser ==
  /\ \A u \in UserIds, h \in HistoryIds :
       /\ Cardinality(VoteRecords(u, h)) <= 1
       /\ IF lastVote[u, h] \in {"up", "down"}
            THEN \E i \in VoteRecords(u, h) : votes[i].vote = lastVote[u, h]
            ELSE VoteRecords(u, h) = {}
  /\ \A h \in HistoryIds :
       getCounts(h) = [up   |-> Cardinality({u \in UserIds : lastVote[u, h] = "up"}),
                       down |-> Cardinality({u \in UserIds : lastVote[u, h] = "down"})]

====
